---- MODULE Spec2Model ----
(***************************************************************************)
(* FitPlanAI: the workout-log store and the progress report of             *)
(* GET /api/progress (server/routes.ts, server/storage.ts,                 *)
(* shared/schema.ts).                                                      *)
(*                                                                         *)
(* Time is counted in ticks; one calendar day is DAY_IN_MS ticks long and  *)
(* the server's zone has a constant offset, so the calendar day of an      *)
(* instant t is t \div DAY_IN_MS.  A table is a sequence of rows kept in   *)
(* the order of its range query (completedAt, then id).  A JSON object is  *)
(* a record that has exactly the keys that are present; a NULL column is   *)
(* the value NULL.                                                         *)
(***************************************************************************)
EXTENDS Integers, Sequences, FiniteSets, TLC

VARIABLES
  now,        \* the server clock (what new Date() returns)
  users,      \* users table: set of user ids
  plans,      \* workout_plans table: sequence of rows
  workouts,   \* workouts table: sequence of rows
  logs,       \* workout_logs table: sequence of rows
  nextId,     \* next generated row id
  posts,      \* number of POST /api/workout-logs requests served
  request,    \* the request served by the last step (NoRequest otherwise)
  response,   \* the response sent by the last step (NoResponse otherwise)
  pending,    \* the requests suspended at an await, with what they have read
  equipment   \* equipment table: sequence of rows

vars ==
  <<now, users, plans, workouts, logs, nextId, posts, request, response, pending,
    equipment>>

----------------------------------------------------------------------------
(* Bounds of the model                                                     *)

TicksPerDay == 2     \* clock resolution: instants per calendar day
MaxTicks == 3        \* how far the clock advances
MaxPosts == 1        \* POST /api/workout-logs requests per behaviour
SmallRun == 3        \* short histories: 0..SmallRun consecutive days
MaxRun == 31         \* long histories: ScanDays-1..MaxRun consecutive days
MaxDurationPosts == 2  \* POST requests per behaviour of SpecDuration
MaxPlans == 4        \* rows of workout_plans a behaviour of SpecGenerate reaches

(* Program constants                                                       *)

ScanDays == 30       \* calculateCurrentStreak: for (let i = 0; i < 30; i++)
MinDays == 1         \* z.coerce.number().int().min(1)
MaxDays == 31        \* .max(31)
DefaultDays == 7     \* queryValidation.data.days ?? 7
WeekDays == 7        \* Math.min(daysNumber, 7)
SecondsPerMinute == 60

NULL == 0 - 1000     \* SQL NULL / JS null or undefined in a numeric position

DAY_IN_MS == TicksPerDay

demoUserId == 1
otherUserId == 2

EpochDay == MaxRun + 1
MaxNow == EpochDay * DAY_IN_MS + MaxTicks

NoRequest == [kind |-> "none"]
NoResponse == [status |-> 0]

----------------------------------------------------------------------------
(* Date helpers                                                            *)

\* Date.prototype.toDateString: the calendar day of an instant
toDateString(t) == t \div DAY_IN_MS

\* toLocaleDateString("en-US", {weekday: "short"}): the weekday of an instant
WeekdayShort(t) == toDateString(t) % 7

\* new Date(y, m, d) of an instant: local midnight of its day
StartOfDay(t) == toDateString(t) * DAY_IN_MS

Min(a, b) == IF a <= b THEN a ELSE b
Max(a, b) == IF a >= b THEN a ELSE b

\* Math.round(n / d) for d > 0: nearest integer, halves towards +infinity
RoundDiv(n, d) == (2 * n + d) \div (2 * d)

RECURSIVE SumSeq(_)
SumSeq(s) == IF s = <<>> THEN 0 ELSE Head(s) + SumSeq(Tail(s))

(* JSON numbers.  An integer is held as itself; the number n + 1/2 is held *)
(* as Half(n), so that sums and Math.round see a fractional part.          *)
HalfBase == 100000
Half(n) == HalfBase + n
IsHalf(v) == v > HalfBase \div 2

\* Math.floor
Floor(v) == IF IsHalf(v) THEN v - HalfBase ELSE v

\* a + b on numbers
Plus(a, b) ==
  IF IsHalf(a) /\ IsHalf(b) THEN Floor(a) + Floor(b) + 1
  ELSE IF IsHalf(a) \/ IsHalf(b) THEN Half(Floor(a) + Floor(b))
  ELSE a + b

\* Math.round: the nearest integer, a half towards +infinity
MathRound(v) == IF IsHalf(v) THEN Floor(v) + 1 ELSE v

RECURSIVE SumNumbers(_)
\* reduce((total, x) => total + x, 0)
SumNumbers(s) == IF s = <<>> THEN 0 ELSE Plus(Head(s), SumNumbers(Tail(s)))

----------------------------------------------------------------------------
(* JSON values and rows                                                    *)

\* a jsonb column or body field holding an array, or null
JsonArray(items) == [array |-> TRUE, items |-> items]
JsonNull == [array |-> FALSE, items |-> <<>>]

\* an exercise entry that is not a JSON object (a number, a string, null)
NonObject == [nonObject |-> TRUE]
IsObject(e) == "nonObject" \notin DOMAIN e

\* the value of key k of a JSON object when it is a number
IsNumber(obj, k) == k \in DOMAIN obj /\ obj[k] # NULL

\* the row that stands for "no workout" (null) in an enriched log
NullWorkout == [id |-> NULL, planId |-> NULL, estimatedDuration |-> NULL]

----------------------------------------------------------------------------
(* shared/schema.ts: validation of a workout-log body                      *)

\* workoutLogExerciseSchema: name required, the known numeric fields bounded,
\* every other key passed through unchecked
ValidExercise(e) ==
  /\ IsObject(e)
  /\ "name" \in DOMAIN e /\ e.name # ""
  /\ ("durationMinutes" \in DOMAIN e
        => e.durationMinutes >= 1 /\ e.durationMinutes <= 600)
  /\ ("durationSeconds" \in DOMAIN e
        => e.durationSeconds >= 1 /\ e.durationSeconds <= 3600)

\* workoutLogBaseSchema: the shape of each field that is present
ValidBase(body) ==
  /\ ("exercises" \in DOMAIN body /\ body.exercises.array
        => /\ Len(body.exercises.items) <= 50
           /\ \A i \in 1..Len(body.exercises.items) :
                ValidExercise(body.exercises.items[i]))
  /\ ("rating" \in DOMAIN body /\ body.rating # NULL
        => body.rating >= 1 /\ body.rating <= 5)
  /\ ("durationMinutes" \in DOMAIN body /\ body.durationMinutes # NULL
        => body.durationMinutes >= 1 /\ body.durationMinutes <= 600)
  /\ ("tags" \in DOMAIN body /\ body.tags.array
        => /\ Len(body.tags.items) <= 8
           /\ \A i \in 1..Len(body.tags.items) : body.tags.items[i] # "")

\* Array.isArray(x) ? x.length : 0 on a field that may be absent
ExerciseCountOf(rec) ==
  IF "exercises" \in DOMAIN rec /\ rec.exercises.array
  THEN Len(rec.exercises.items) ELSE 0

\* !data.workoutId
NoWorkoutId(rec) == "workoutId" \notin DOMAIN rec \/ rec.workoutId = NULL

\* insertWorkoutLogSchema: base shape plus "a custom log needs an exercise"
insertWorkoutLogSchema(body) ==
  /\ ValidBase(body)
  /\ ~(NoWorkoutId(body) /\ ExerciseCountOf(body) = 0)

\* updateWorkoutLogSchema: base shape plus "an update that clears the workout
\* and sets the exercises needs an exercise"
updateWorkoutLogSchema(body) ==
  /\ ValidBase(body)
  /\ ~( /\ "workoutId" \in DOMAIN body /\ body.workoutId = NULL
        /\ "exercises" \in DOMAIN body
        /\ ExerciseCountOf(body) = 0 )

----------------------------------------------------------------------------
(* server/storage.ts: DrizzleStorage                                       *)

\* ORDER BY completed_at ASC, id ASC (NULLs last)
RowBefore(a, b) ==
  IF a.completedAt = b.completedAt THEN a.id < b.id
  ELSE IF a.completedAt = NULL THEN FALSE
  ELSE IF b.completedAt = NULL THEN TRUE
  ELSE a.completedAt < b.completedAt

\* the table with one more row, in query order
InsertRow(table, row) ==
  LET k == Cardinality({i \in 1..Len(table) : RowBefore(table[i], row)})
  IN  SubSeq(table, 1, k) \o <<row>> \o SubSeq(table, k + 1, Len(table))

\* createWorkoutLog: INSERT ... RETURNING; absent columns take their default
\* (id generated, completed_at now(), everything else NULL)
NewLogRow(payload, id, clock) ==
  [ id |-> id,
    userId |-> payload.userId,
    workoutId |-> IF "workoutId" \in DOMAIN payload THEN payload.workoutId ELSE NULL,
    completedAt |-> IF "completedAt" \in DOMAIN payload THEN payload.completedAt ELSE clock,
    exercises |-> IF "exercises" \in DOMAIN payload THEN payload.exercises ELSE JsonNull,
    rating |-> IF "rating" \in DOMAIN payload THEN payload.rating ELSE NULL,
    durationMinutes |-> IF "durationMinutes" \in DOMAIN payload
                        THEN payload.durationMinutes ELSE NULL,
    tags |-> IF "tags" \in DOMAIN payload THEN payload.tags ELSE JsonNull ]

\* the range query without its lower bound: every row up to endDate
getWorkoutLogsUpTo(table, userId, startDate, endDate) ==
  SelectSeq(table, LAMBDA r :
    /\ r.userId = userId
    /\ r.completedAt # NULL
    /\ r.completedAt <= endDate)

\* getWorkoutLogsByDateRange: the user's rows with startDate <= completed_at
\* <= endDate, ordered by completed_at, id
getWorkoutLogsByDateRange(table, userId, startDate, endDate) ==
  SelectSeq(table, LAMBDA r :
    /\ r.userId = userId
    /\ r.completedAt # NULL
    /\ r.completedAt >= startDate
    /\ r.completedAt <= endDate)

\* getWorkout / getWorkoutPlan: the row with this id, or the null row
FindRow(table, id, none) ==
  IF \E i \in 1..Len(table) : table[i].id = id
  THEN table[CHOOSE i \in 1..Len(table) : table[i].id = id]
  ELSE none

getWorkout(id) == FindRow(workouts, id, NullWorkout)

NullPlan == [id |-> NULL, userId |-> NULL]
getWorkoutPlan(id) == FindRow(plans, id, NullPlan)

\* the row that stands for "no log" (undefined)
NullLog ==
  [ id |-> NULL, userId |-> NULL, workoutId |-> NULL, completedAt |-> NULL,
    exercises |-> JsonNull, rating |-> NULL, durationMinutes |-> NULL,
    tags |-> JsonNull ]

\* getWorkoutLog: the log with this id, or undefined
getWorkoutLog(id) == FindRow(logs, id, NullLog)

\* applyDefinedFields, delete sanitized.userId: the columns an update sets
sanitizedKeys(updates) == DOMAIN updates \ {"userId"}

\* UPDATE ... SET sanitized WHERE id RETURNING: the row after the update
UpdatedLogRow(existing, updates) ==
  [ k \in DOMAIN existing |->
      IF k \in sanitizedKeys(updates) THEN updates[k] ELSE existing[k] ]

\* the table without the row of this id
WithoutRow(table, id) == SelectSeq(table, LAMBDA r : r.id # id)

\* updateWorkoutLog: the table after the update, in query order
updateWorkoutLog(table, id, updates) ==
  LET existing == FindRow(table, id, NullLog)
  IN  IF existing = NullLog \/ sanitizedKeys(updates) = {} THEN table
      ELSE InsertRow(WithoutRow(table, id), UpdatedLogRow(existing, updates))

----------------------------------------------------------------------------
(* server/routes.ts: helpers                                               *)

\* the ownership check that stops at the workout: its plan is not looked up
ensureWorkoutExists(workoutId) ==
  IF getWorkout(workoutId) = NullWorkout THEN 404 ELSE 0

\* ensureWorkoutBelongsToDemoUser: 0 when the workout is the active user's,
\* else the error status
ensureWorkoutBelongsToDemoUser(workoutId) ==
  LET workout == getWorkout(workoutId)
      plan == getWorkoutPlan(workout.planId)
  IN  IF workout = NullWorkout THEN 404
      ELSE IF plan = NullPlan \/ plan.userId # demoUserId THEN 403
      ELSE 0

\* enrichLogsWithWorkouts: every log with the workout row it references
enrichLogsWithWorkouts(rows, workoutTable) ==
  [ i \in 1..Len(rows) |->
      [ log |-> rows[i],
        workout |-> IF rows[i].workoutId # NULL
                    THEN FindRow(workoutTable, rows[i].workoutId, NullWorkout)
                    ELSE NullWorkout ] ]

----------------------------------------------------------------------------
(* server/routes.ts: GET /api/progress                                     *)

(* req.query.days: NULL when the parameter is absent, EmptyText when it is *)
(* the empty string, else the number its text coerces to: an integer, a    *)
(* number with a fraction (Half) or NaN (text that is no number).          *)
EmptyText == 0 - 3000
NaN == 0 - 2000

\* the preprocess step: undefined, null and "" become undefined
preprocessDays(q) == IF q = NULL \/ q = EmptyText THEN NULL ELSE q

\* the validation without the upper limit
ValidDaysQueryNoMax(q) ==
  LET v == preprocessDays(q)
  IN  v = NULL \/ (v # NaN /\ ~IsHalf(v) /\ v >= MinDays)

\* z.coerce.number().int().min(1).max(31).optional() after the preprocess
ValidDaysQuery(q) ==
  LET v == preprocessDays(q)
  IN  v = NULL \/ (v # NaN /\ ~IsHalf(v) /\ v >= MinDays /\ v <= MaxDays)

\* queryValidation.data.days ?? 7
daysNumberOf(q) == IF preprocessDays(q) = NULL THEN DefaultDays ELSE q

\* startDate = new Date(endDate.getTime() - (daysNumber - 1) * DAY_IN_MS)
startDateOf(endDate, daysNumber) == endDate - (daysNumber - 1) * DAY_IN_MS

\* logDateCounts: toDateString key -> number of fetched logs of that day
logDateCounts(rows) ==
  LET dated == {i \in 1..Len(rows) : rows[i].completedAt # NULL}
      keys == {toDateString(rows[i].completedAt) : i \in dated}
  IN  [ key \in keys |->
          Cardinality({i \in dated : toDateString(rows[i].completedAt) = key}) ]

\* logDateCounts.get(key) ?? 0
CountForDay(counts, key) == IF key \in DOMAIN counts THEN counts[key] ELSE 0

\* the per-day flag of the first version of the handler: 1 or 0
nextRunningStreakFlag(runningStreak, workoutsForDay) ==
  IF workoutsForDay > 0 THEN 1 ELSE 0

\* runningStreak = workoutsForDay > 0 ? runningStreak + 1 : 0
nextRunningStreak(runningStreak, workoutsForDay) ==
  IF workoutsForDay > 0 THEN runningStreak + 1 ELSE 0

\* the date of the loop's i-th day: new Date(endDate.getTime() - i * DAY_IN_MS)
currentDateOf(endDate, i) == endDate - i * DAY_IN_MS

RECURSIVE dailyStatsLoop(_, _, _, _, _)
\* for (let i = daysNumber - 1; i >= 0; i--) { ...; dailyStats.push(...) }
dailyStatsLoop(i, runningStreak, dailyStats, counts, endDate) ==
  IF i < 0 THEN dailyStats
  ELSE
    LET currentDate == currentDateOf(endDate, i)
        workoutsForDay == CountForDay(counts, toDateString(currentDate))
        streak == nextRunningStreak(runningStreak, workoutsForDay)
    IN  dailyStatsLoop(i - 1, streak,
          Append(dailyStats, [ date |-> WeekdayShort(currentDate),
                               workouts |-> workoutsForDay,
                               streak |-> streak ]),
          counts, endDate)

\* the loop started one day too early
firstLoopIndexOneMore(daysNumber) == daysNumber

\* the first index of the dailyStats loop
firstLoopIndex(daysNumber) == daysNumber - 1

\* the mean taken over all the logs, rated or not
averageRatingOverAllLogs(rows) ==
  LET rated == {i \in 1..Len(rows) : rows[i].rating # NULL /\ rows[i].rating > 0}
      total == SumSeq([i \in 1..Len(rows) |->
                        IF i \in rated THEN rows[i].rating ELSE 0])
  IN  IF rated = {} THEN 0 ELSE RoundDiv(total * 10, Len(rows))

\* averageRating, in tenths: Math.round(mean * 10) over the ratings > 0
averageRatingOf(rows) ==
  LET rated == {i \in 1..Len(rows) : rows[i].rating # NULL /\ rows[i].rating > 0}
      total == SumSeq([i \in 1..Len(rows) |->
                        IF i \in rated THEN rows[i].rating ELSE 0])
  IN  IF rated = {} THEN 0 ELSE RoundDiv(total * 10, Cardinality(rated))

\* the week start without the cap at 7 days: the start of the whole window
weekStartUncapped(endDate, daysNumber) == endDate - (daysNumber - 1) * DAY_IN_MS

\* weekStart = new Date(endDate.getTime() - (Math.min(daysNumber, 7) - 1) * DAY_IN_MS)
weekStartOf(endDate, daysNumber) ==
  endDate - (Min(daysNumber, WeekDays) - 1) * DAY_IN_MS

\* workoutsThisWeek: fetched logs with completedAt >= weekStart
workoutsThisWeekOf(rows, weekStart) ==
  Cardinality({i \in 1..Len(rows) :
    rows[i].completedAt # NULL /\ rows[i].completedAt >= weekStart})

\* the derivation with the seconds truncated instead of rounded
derivedMinutesTruncated(exercise) ==
  IF ~IsObject(exercise) THEN 0
  ELSE IF IsNumber(exercise, "durationMinutes") THEN exercise.durationMinutes
  ELSE IF IsNumber(exercise, "duration") THEN exercise.duration
  ELSE IF IsNumber(exercise, "durationSeconds")
       THEN exercise.durationSeconds \div SecondsPerMinute
  ELSE 0

\* !exercise || typeof exercise !== "object": the entry is passed over
skipsExercise(exercise) == ~IsObject(exercise)

\* minutesFromMinutes ?? minutesFromGeneric ?? minutesFromSeconds ?? 0
derivedMinutes(exercise) ==
  IF skipsExercise(exercise) THEN 0
  ELSE IF IsNumber(exercise, "durationMinutes") THEN exercise.durationMinutes
  ELSE IF IsNumber(exercise, "duration") THEN exercise.duration
  ELSE IF IsNumber(exercise, "durationSeconds")
       THEN RoundDiv(exercise.durationSeconds, SecondsPerMinute)
  ELSE 0

\* exerciseMinutes: log.exercises.reduce(... + derivedMinutes, 0)
exerciseMinutes(exercises) ==
  SumNumbers([i \in 1..Len(exercises.items) |-> derivedMinutes(exercises.items[i])])

\* the guard that lets every value into the exercise reduce
isArrayUnchecked(value) == TRUE

\* Array.isArray(log.exercises)
isArray(value) == value.array

\* log.workout?.estimatedDuration is truthy
hasEstimate(entry) ==
  entry.workout.estimatedDuration # NULL /\ entry.workout.estimatedDuration # 0

\* one step of the totalMinutes reduce: what an enriched log adds
logMinutes(entry) ==
  IF hasEstimate(entry)
  THEN entry.workout.estimatedDuration
  ELSE IF isArray(entry.log.exercises) THEN exerciseMinutes(entry.log.exercises)
  ELSE 0

\* the TypeError one step of the reduce raises: .reduce called on a value
\* that is not an array, or a property read on an entry that is null
logMinutesThrows(entry) ==
  /\ ~hasEstimate(entry)
  /\ isArray(entry.log.exercises)
  /\ \/ ~entry.log.exercises.array
     \/ \E i \in 1..Len(entry.log.exercises.items) :
          /\ ~skipsExercise(entry.log.exercises.items[i])
          /\ ~IsObject(entry.log.exercises.items[i])

\* totalMinutes = logsWithWorkouts.reduce(..., 0)
totalMinutesOf(logsWithWorkouts) ==
  SumNumbers([i \in 1..Len(logsWithWorkouts) |-> logMinutes(logsWithWorkouts[i])])

\* loggedDates: the toDateString keys of the logs' days
loggedDatesOf(rows) ==
  { toDateString(StartOfDay(rows[i].completedAt)) :
      i \in {j \in 1..Len(rows) : rows[j].completedAt # NULL} }

RECURSIVE streakLoopOneMore(_, _, _, _)
\* the scan with the loop bound off by one: i <= 30
streakLoopOneMore(i, streak, todayStart, loggedDates) ==
  IF i > ScanDays THEN streak
  ELSE IF toDateString(todayStart - i * DAY_IN_MS) \in loggedDates
       THEN streakLoopOneMore(i + 1, streak + 1, todayStart, loggedDates)
  ELSE IF i > 0 THEN streak
  ELSE streakLoopOneMore(i + 1, streak, todayStart, loggedDates)

RECURSIVE streakLoopNoBreak(_, _, _, _)
\* the scan without the break: every logged day of the 30 counts
streakLoopNoBreak(i, streak, todayStart, loggedDates) ==
  IF i >= ScanDays THEN streak
  ELSE IF toDateString(todayStart - i * DAY_IN_MS) \in loggedDates
       THEN streakLoopNoBreak(i + 1, streak + 1, todayStart, loggedDates)
  ELSE streakLoopNoBreak(i + 1, streak, todayStart, loggedDates)

RECURSIVE streakLoop(_, _, _, _)
\* for (let i = 0; i < 30; i++) { if (has) streak++; else if (i > 0) break; }
streakLoop(i, streak, todayStart, loggedDates) ==
  IF i >= ScanDays THEN streak
  ELSE IF toDateString(todayStart - i * DAY_IN_MS) \in loggedDates
       THEN streakLoop(i + 1, streak + 1, todayStart, loggedDates)
  ELSE IF i > 0 THEN streak
  ELSE streakLoop(i + 1, streak, todayStart, loggedDates)

\* the streak that an empty today resets to 0
calculateCurrentStreakStrict(rows, today) ==
  IF Len(rows) = 0 \/ toDateString(today) \notin loggedDatesOf(rows) THEN 0
  ELSE streakLoop(0, 0, StartOfDay(today), loggedDatesOf(rows))

\* calculateCurrentStreak(logs), with today = new Date() read inside it
calculateCurrentStreak(rows, today) ==
  IF Len(rows) = 0 THEN 0
  ELSE streakLoop(0, 0, StartOfDay(today), loggedDatesOf(rows))

\* the total sent as it was summed, neither rounded nor clamped
reportMinutesRaw(totalMinutes) == totalMinutes

\* Math.max(0, Math.round(totalMinutes))
reportMinutes(totalMinutes) == Max(0, MathRound(totalMinutes))

\* the body of the 200 response, from the logs of the first read and the
\* workouts table of the second
reportOf(rows, workoutTable, endDate, today, daysNumber) ==
  LET logsWithWorkouts == enrichLogsWithWorkouts(rows, workoutTable)
  IN  [ dailyStats |-> dailyStatsLoop(firstLoopIndex(daysNumber), 0, <<>>,
                                      logDateCounts(rows), endDate),
        totalWorkouts |-> Len(rows),
        averageRating |-> averageRatingOf(rows),
        currentStreak |-> calculateCurrentStreak(rows, today),
        workoutsThisWeek |-> workoutsThisWeekOf(rows, weekStartOf(endDate, daysNumber)),
        totalMinutes |-> reportMinutes(totalMinutesOf(logsWithWorkouts)) ]

\* the body of the 200 response when nothing runs between the two reads
progressReport(logTable, workoutTable, endDate, today, daysNumber) ==
  reportOf(getWorkoutLogsByDateRange(logTable, demoUserId,
             startDateOf(endDate, daysNumber), endDate),
           workoutTable, endDate, today, daysNumber)

\* the try block of the handler throws: the catch answers 500
progressThrows(logTable, workoutTable, endDate, daysNumber) ==
  LET rows == getWorkoutLogsByDateRange(logTable, demoUserId,
                startDateOf(endDate, daysNumber), endDate)
      logsWithWorkouts == enrichLogsWithWorkouts(rows, workoutTable)
  IN  \E i \in 1..Len(logsWithWorkouts) : logMinutesThrows(logsWithWorkouts[i])

\* the storage calls of the handler, in order: getWorkoutsByIds is called
\* only when some fetched log references a workout
progressQueries(logTable, endDate, daysNumber) ==
  LET rows == getWorkoutLogsByDateRange(logTable, demoUserId,
                startDateOf(endDate, daysNumber), endDate)
  IN  IF \E i \in 1..Len(rows) : rows[i].workoutId # NULL
      THEN <<"getWorkoutLogsByDateRange", "getWorkoutsByIds">>
      ELSE <<"getWorkoutLogsByDateRange">>

----------------------------------------------------------------------------
(* server/ai.ts: the call of the chat-completion service.  What the        *)
(* service does is an input: upstream is [kind |-> "timeout"] (the abort   *)
(* fired), [kind |-> "network"] (fetch rejected) or [kind |-> "response",  *)
(* status, json, content]: the status line, whether the body parses as     *)
(* JSON, and for a completion what choices[0].message.content holds.       *)

\* new AIServiceError(message, {status}) thrown, as a result value
AIServiceError(status) == [error |-> status, timeoutHandle |-> "cleared"]

\* response.ok
responseOk(status) == status >= 200 /\ status <= 299

\* the status of the AIServiceError for a response that is not ok, by its
\* status line alone
statusForUpstream(status) ==
  IF status = 401 \/ status = 403 THEN 401
  ELSE IF status = 429 THEN 429
  ELSE IF status >= 500 THEN 503
  ELSE 502

\* callOpenRouter: the parsed completion, or the AIServiceError thrown.
\* On a response that is not ok, response.json() is tried first; when it
\* throws, response.text() reads a body that has been read already and
\* throws too, and the outer catch answers for it.  finally clears the timer
\* on every path.
callOpenRouter(upstream) ==
  IF upstream.kind = "timeout" THEN AIServiceError(504)
  ELSE IF upstream.kind = "network" THEN AIServiceError(503)
  ELSE IF ~responseOk(upstream.status)
       THEN IF upstream.json
            THEN AIServiceError(statusForUpstream(upstream.status))
            ELSE AIServiceError(503)
  ELSE IF ~upstream.json THEN AIServiceError(503)
  ELSE [error |-> 0, timeoutHandle |-> "cleared", content |-> upstream.content]

\* the workouts of a generated plan that passes workoutPlanSchema
GeneratedWorkouts == << [estimatedDuration |-> 30], [estimatedDuration |-> 20] >>

\* what generateWorkoutPlan resolves to for a completion that passes
\* workoutPlanSchema, as the handler takes it apart:
\* const { plan: generatedPlan, metadata: aiMetadata } = await ...
GeneratedResult == [plan |-> [workouts |-> GeneratedWorkouts]]

\* generateWorkoutPlan: the validated plan with its metadata, or the
\* AIServiceError thrown (one thrown by callOpenRouter is thrown on as it is)
generateWorkoutPlan(upstream) ==
  LET completion == callOpenRouter(upstream)
  IN  IF completion.error # 0 THEN completion
      ELSE IF completion.content # "plan" THEN AIServiceError(502)
      ELSE [ error |-> 0, timeoutHandle |-> completion.timeoutHandle,
             plan |-> GeneratedResult.plan ]

\* requestSchema of POST /api/generate-workout-plan
requestSchema(body) ==
  /\ body.goals >= 1
  /\ body.weeklyMinutes >= 1
  /\ body.dailyMinutes >= 1

----------------------------------------------------------------------------
(* Actions.  A handler is one step where nothing is said about the         *)
(* requests in between; GET /api/progress is also given as the two steps   *)
(* its awaits divide it into (BeginProgress, FinishProgress).  What a step *)
(* does to pending is said where the step is used: the specifications that *)
(* serve one request at a time leave it empty.                             *)

\* the previous request has been answered: the server is free for the next
Idle == response = NoResponse

\* res.json(...) / res.status(...).json(...) of the last request has completed
ResponseSent ==
  /\ ~Idle
  /\ request' = NoRequest
  /\ response' = NoResponse
  /\ UNCHANGED <<now, users, plans, workouts, logs, nextId, posts>>

\* the clock advances
Tick ==
  /\ Idle
  /\ now < MaxNow
  /\ now' = now + 1
  /\ request' = NoRequest
  /\ response' = NoResponse
  /\ UNCHANGED <<users, plans, workouts, logs, nextId, posts>>

\* app.get("/api/progress"): endDate is read on entry, today inside
\* calculateCurrentStreak after the two awaited reads, so not before endDate
GetProgress(q) ==
  /\ Idle
  /\ UNCHANGED <<users, plans, workouts, logs, nextId, posts>>
  /\ IF ~ValidDaysQuery(q)
     THEN /\ request' = [kind |-> "progress", days |-> q, queries |-> <<>>]
          /\ response' = [status |-> 400]
          /\ now' = now
     ELSE \E today \in now..Min(now + 1, MaxNow) :
          /\ request' = [ kind |-> "progress", days |-> q,
                          daysNumber |-> daysNumberOf(q),
                          endDate |-> now, today |-> today,
                          queries |-> progressQueries(logs, now, daysNumberOf(q)) ]
          /\ response' =
               IF progressThrows(logs, workouts, now, daysNumberOf(q))
               THEN [status |-> 500]
               ELSE [ status |-> 200,
                      body |-> progressReport(logs, workouts, now, today,
                                              daysNumberOf(q)) ]
          /\ now' = today

\* app.post("/api/workout-logs")
PostWorkoutLog(body) ==
  LET payload == [k \in DOMAIN body \cup {"userId"} |->
                    IF k = "userId" THEN demoUserId ELSE body[k]]
      ownership == IF NoWorkoutId(payload) THEN 0
                   ELSE ensureWorkoutBelongsToDemoUser(payload.workoutId)
      createdLog == NewLogRow(payload, nextId, now)
  IN  /\ Idle
      /\ request' = [kind |-> "postLog", body |-> body]
      /\ posts' = posts + 1
      /\ UNCHANGED <<now, users, plans, workouts>>
      /\ IF ~insertWorkoutLogSchema(payload)
         THEN response' = [status |-> 400] /\ UNCHANGED <<logs, nextId>>
         ELSE IF ownership # 0
         THEN response' = [status |-> ownership] /\ UNCHANGED <<logs, nextId>>
         ELSE /\ logs' = InsertRow(logs, createdLog)
              /\ nextId' = nextId + 1
              /\ response' = [ status |-> 201,
                               body |-> enrichLogsWithWorkouts(<<createdLog>>, workouts)[1] ]

\* the custom-log check that looks at the update's workoutId only
leavesCustomLogEmptyByWorkoutId(existingLog, updates) ==
  /\ "workoutId" \in DOMAIN updates
  /\ updates.workoutId = NULL
  /\ (IF "exercises" \in DOMAIN updates
      THEN ExerciseCountOf(updates) ELSE ExerciseCountOf(existingLog)) = 0

\* the checks of PUT that answer "Custom workout logs must include at least
\* one exercise."
leavesCustomLogEmpty(existingLog, updates) ==
  IF "workoutId" \in DOMAIN updates
  THEN /\ updates.workoutId = NULL
       /\ (IF "exercises" \in DOMAIN updates
           THEN ExerciseCountOf(updates) ELSE ExerciseCountOf(existingLog)) = 0
  ELSE /\ "exercises" \in DOMAIN updates
       /\ ExerciseCountOf(updates) = 0
       /\ existingLog.workoutId = NULL

\* app.put("/api/workout-logs/:id")
PutWorkoutLog(id, body) ==
  LET existingLog == getWorkoutLog(id)
      ownership == IF NoWorkoutId(body) THEN 0
                   ELSE ensureWorkoutBelongsToDemoUser(body.workoutId)
      table == updateWorkoutLog(logs, id, body)
      updated == FindRow(table, id, NullLog)
  IN  /\ Idle
      /\ request' = [kind |-> "putLog", id |-> id, body |-> body]
      /\ UNCHANGED <<now, users, plans, workouts, nextId, posts>>
      /\ IF existingLog = NullLog \/ existingLog.userId # demoUserId
         THEN response' = [status |-> 404] /\ UNCHANGED logs
         ELSE IF ~updateWorkoutLogSchema(body)
         THEN response' = [status |-> 400] /\ UNCHANGED logs
         ELSE IF ownership # 0
         THEN response' = [status |-> ownership] /\ UNCHANGED logs
         ELSE IF leavesCustomLogEmpty(existingLog, body)
         THEN response' = [status |-> 400] /\ UNCHANGED logs
         ELSE /\ logs' = table
              /\ response' = [ status |-> 200,
                               body |-> enrichLogsWithWorkouts(<<updated>>, workouts)[1] ]

\* DELETE FROM workouts WHERE id: the logs that reference the workout keep
\* their row with workout_id set to NULL (ON DELETE SET NULL)
deleteWorkoutSetNull(table, id) ==
  [ i \in 1..Len(table) |->
      IF table[i].workoutId = id
      THEN [table[i] EXCEPT !.workoutId = NULL] ELSE table[i] ]

\* app.delete("/api/workouts/:id")
DeleteWorkout(id) ==
  /\ Idle
  /\ request' = [kind |-> "deleteWorkout", id |-> id]
  /\ UNCHANGED <<now, users, plans, nextId, posts>>
  /\ IF getWorkout(id) = NullWorkout
     THEN response' = [status |-> 404] /\ UNCHANGED <<workouts, logs>>
     ELSE /\ workouts' = WithoutRow(workouts, id)
          /\ logs' = deleteWorkoutSetNull(logs, id)
          /\ response' = [status |-> 204]

\* the UPDATE of a workout row is refused by the database: plan_id must name
\* a plan, the id must stay unique and no log may be left referencing the
\* old id
updateWorkoutRefused(id, updated) ==
  \/ \A j \in 1..Len(plans) : plans[j].id # updated.planId
  \/ /\ updated.id # id
     /\ \/ updated.id = NULL
        \/ \E i \in 1..Len(workouts) : workouts[i].id = updated.id
        \/ \E i \in 1..Len(logs) : logs[i].workoutId = id

\* updateWorkout: .set(applyDefinedFields(updates)), every column the body
\* names takes the body's value
updateWorkout(existing, updates) ==
  [ k \in DOMAIN existing |->
      IF k \in DOMAIN updates THEN updates[k] ELSE existing[k] ]

\* app.put("/api/workouts/:id"): the body is applied as it comes
PutWorkout(id, updates) ==
  LET existing == getWorkout(id)
      updated == updateWorkout(existing, updates)
  IN  /\ Idle
      /\ request' = [kind |-> "putWorkout", id |-> id, body |-> updates]
      /\ UNCHANGED <<now, users, plans, logs, nextId, posts>>
      /\ IF existing = NullWorkout
         THEN response' = [status |-> 404] /\ UNCHANGED workouts
         ELSE IF updateWorkoutRefused(id, updated)
         THEN response' = [status |-> 400] /\ UNCHANGED workouts
         ELSE /\ workouts' = [ i \in 1..Len(workouts) |->
                                 IF workouts[i].id = id THEN updated
                                 ELSE workouts[i] ]
              /\ response' = [status |-> 200, body |-> updated]

\* getPlanWorkouts: the ids of the workouts of a plan
getPlanWorkouts(planId) ==
  { workouts[i].id : i \in {j \in 1..Len(workouts) : workouts[j].planId = planId} }

\* app.delete("/api/workout-plans/:id"): the plan's workouts are deleted one
\* by one, then the plan
DeleteWorkoutPlan(id) ==
  /\ Idle
  /\ request' = [kind |-> "deletePlan", id |-> id]
  /\ UNCHANGED <<now, users, nextId, posts>>
  /\ workouts' = SelectSeq(workouts, LAMBDA w : w.id \notin getPlanWorkouts(id))
  /\ logs' = [ i \in 1..Len(logs) |->
                IF logs[i].workoutId \in getPlanWorkouts(id)
                THEN [logs[i] EXCEPT !.workoutId = NULL] ELSE logs[i] ]
  /\ plans' = WithoutRow(plans, id)
  /\ response' = IF getWorkoutPlan(id) = NullPlan
                 THEN [status |-> 404] ELSE [status |-> 204]

\* app.delete("/api/workout-logs/:id")
DeleteWorkoutLog(id) ==
  /\ Idle
  /\ request' = [kind |-> "deleteLog", id |-> id]
  /\ UNCHANGED <<now, users, plans, workouts, nextId, posts>>
  /\ IF \E i \in 1..Len(logs) : logs[i].id = id
     THEN logs' = WithoutRow(logs, id) /\ response' = [status |-> 204]
     ELSE UNCHANGED logs /\ response' = [status |-> 404]

\* GET /api/progress up to its first await: the query is validated, endDate
\* read and getWorkoutLogsByDateRange has answered; seen collects the
\* states the store goes through while the request is suspended
BeginProgress(q) ==
  /\ ValidDaysQuery(q)
  /\ pending' = Append(pending,
       [ days |-> q, daysNumber |-> daysNumberOf(q), endDate |-> now,
         rows |-> getWorkoutLogsByDateRange(logs, demoUserId,
                    startDateOf(now, daysNumberOf(q)), now),
         seen |-> {<<logs, workouts>>} ])
  /\ UNCHANGED <<now, users, plans, workouts, logs, nextId, posts,
                 request, response>>

\* the rest of GET /api/progress: getWorkoutsByIds answers from the store as
\* it is now, the report is computed and sent
FinishProgress(i) ==
  LET p == pending[i]
      throws == \E k \in 1..Len(p.rows) :
                  logMinutesThrows(enrichLogsWithWorkouts(p.rows, workouts)[k])
  IN  /\ Idle
      /\ request' = [ kind |-> "progress", days |-> p.days,
                      daysNumber |-> p.daysNumber, endDate |-> p.endDate,
                      today |-> now, rows |-> p.rows, seen |-> p.seen ]
      /\ response' =
           IF throws THEN [status |-> 500]
           ELSE [ status |-> 200,
                  body |-> reportOf(p.rows, workouts, p.endDate, now,
                                    p.daysNumber) ]
      /\ pending' = SubSeq(pending, 1, i - 1) \o SubSeq(pending, i + 1, Len(pending))
      /\ UNCHANGED <<now, users, plans, workouts, logs, nextId, posts>>

\* app.post("/api/generate-workout-plan").  The storage calls are numbered
\* in the order the handler makes them (1 getUserEquipment,
\* 2 createWorkoutPlan, 2 + k createWorkout of the k-th workout); failAt is
\* the call that throws, 0 when none does.
GenerateWorkoutPlan(body, upstream, failAt) ==
  LET generated == generateWorkoutPlan(upstream)
      savedPlan == [id |-> nextId, userId |-> demoUserId]
      generatedPlan == generated.plan
      count == Len(generatedPlan.workouts)
      saved == IF failAt = 0 THEN count ELSE failAt - 3
      savedWorkouts ==
        [ k \in 1..saved |->
            [ id |-> nextId + k, planId |-> savedPlan.id,
              estimatedDuration |-> generatedPlan.workouts[k].estimatedDuration ] ]
  IN  /\ Idle
      /\ UNCHANGED <<now, users, logs, posts>>
      /\ IF ~requestSchema(body)
         THEN /\ request' = [ kind |-> "generate", body |-> body, called |-> FALSE,
                              failAt |-> failAt ]
              /\ response' = [status |-> 400]
              /\ UNCHANGED <<plans, workouts, nextId>>
         ELSE IF failAt = 1
         THEN /\ request' = [ kind |-> "generate", body |-> body, called |-> FALSE,
                              failAt |-> failAt ]
              /\ response' = [status |-> 500]
              /\ UNCHANGED <<plans, workouts, nextId>>
         ELSE /\ request' = [ kind |-> "generate", body |-> body, called |-> TRUE,
                              failAt |-> failAt, upstream |-> upstream,
                              timeoutHandle |-> generated.timeoutHandle ]
              /\ IF generated.error # 0
                 THEN /\ response' = [status |-> generated.error]
                      /\ UNCHANGED <<plans, workouts, nextId>>
                 ELSE IF failAt = 2
                 THEN /\ response' = [status |-> 500]
                      /\ UNCHANGED <<plans, workouts, nextId>>
                 ELSE /\ plans' = Append(plans, savedPlan)
                      /\ workouts' = workouts \o savedWorkouts
                      /\ nextId' = nextId + 1 + saved
                      /\ response' =
                           IF failAt # 0 THEN [status |-> 500]
                           ELSE [ status |-> 201,
                                  body |-> [ plan |-> savedPlan,
                                             workouts |-> savedWorkouts ] ]

\* PUT /api/workout-logs/:id up to its first await: storage.getWorkoutLog
\* has answered with the log as it is stored now
BeginPutLog(id, body) ==
  /\ pending' = Append(pending,
       [id |-> id, body |-> body, existingLog |-> getWorkoutLog(id)])
  /\ UNCHANGED <<now, users, plans, workouts, logs, nextId, posts,
                 request, response>>

\* the rest of PUT /api/workout-logs/:id: the checks against the log that
\* was read, then storage.updateWorkoutLog on the table as it is now
FinishPutLog(i) ==
  LET p == pending[i]
      ownership == IF NoWorkoutId(p.body) THEN 0
                   ELSE ensureWorkoutBelongsToDemoUser(p.body.workoutId)
      table == updateWorkoutLog(logs, p.id, p.body)
      updated == FindRow(table, p.id, NullLog)
  IN  /\ Idle
      /\ request' = [ kind |-> "putLog", id |-> p.id, body |-> p.body,
                      existingLog |-> p.existingLog ]
      /\ pending' = SubSeq(pending, 1, i - 1) \o SubSeq(pending, i + 1, Len(pending))
      /\ UNCHANGED <<now, users, plans, workouts, nextId, posts>>
      /\ IF p.existingLog = NullLog \/ p.existingLog.userId # demoUserId
         THEN response' = [status |-> 404] /\ UNCHANGED logs
         ELSE IF ~updateWorkoutLogSchema(p.body)
         THEN response' = [status |-> 400] /\ UNCHANGED logs
         ELSE IF ownership # 0
         THEN response' = [status |-> ownership] /\ UNCHANGED logs
         ELSE IF leavesCustomLogEmpty(p.existingLog, p.body)
         THEN response' = [status |-> 400] /\ UNCHANGED logs
         ELSE IF updated = NullLog
         THEN response' = [status |-> 404] /\ UNCHANGED logs
         ELSE /\ logs' = table
              /\ response' = [ status |-> 200,
                               body |-> enrichLogsWithWorkouts(<<updated>>, workouts)[1] ]

\* the suspended requests after the store has become <<logTable, workoutTable>>
Observed(logTable, workoutTable) ==
  [ i \in 1..Len(pending) |->
      [pending[i] EXCEPT !.seen = @ \cup {<<logTable, workoutTable>>}] ]

----------------------------------------------------------------------------
(* The store the requests start from, and the requests                     *)

\* history lengths: short ones, and ones around the scan's 30 days
RunLengths == (0..SmallRun) \cup ((ScanDays - 1)..MaxRun)

PlainExercises == JsonArray(<<[name |-> "squat", sets |-> 3]>>)

\* the k-th of len logs, one per day, the last of them the day before EpochDay
RunRow(k, len) ==
  [ id |-> k, userId |-> demoUserId, workoutId |-> NULL,
    completedAt |-> (EpochDay - len + k - 1) * DAY_IN_MS,
    exercises |-> PlainExercises, rating |-> NULL, durationMinutes |-> NULL,
    tags |-> JsonNull ]

\* a log of another user, completed on EpochDay
ForeignRow(id) ==
  [ id |-> id, userId |-> otherUserId, workoutId |-> NULL,
    completedAt |-> EpochDay * DAY_IN_MS,
    exercises |-> PlainExercises, rating |-> NULL, durationMinutes |-> NULL,
    tags |-> JsonNull ]

HistoryTable(len) == [k \in 1..len |-> RunRow(k, len)] \o <<ForeignRow(len + 1)>>

InitPlans ==
  << [id |-> 1, userId |-> demoUserId], [id |-> 2, userId |-> otherUserId] >>

InitWorkouts ==
  << [id |-> 1, planId |-> 1, estimatedDuration |-> 45],
     [id |-> 2, planId |-> 1, estimatedDuration |-> NULL],
     [id |-> 3, planId |-> 2, estimatedDuration |-> 20] >>

Init ==
  /\ now = EpochDay * DAY_IN_MS
  /\ users = {demoUserId, otherUserId}
  /\ plans = InitPlans
  /\ workouts = InitWorkouts
  /\ \E len \in RunLengths : logs = HistoryTable(len) /\ nextId = len + 2
  /\ posts = 0
  /\ request = NoRequest
  /\ response = NoResponse
  /\ pending = <<>>
  /\ equipment = <<>>

\* the days query values: absent, empty, every valid one, one below and one
\* above, a number that is not an integer and a text that is no number
DaysQueries ==
  {NULL, EmptyText, NaN, Half(2)} \cup ((MinDays - 1)..(MaxDays + 1))

\* log bodies that differ in completedAt: absent (now), yesterday, a later time
DateBodies ==
  { [exercises |-> PlainExercises],
    [exercises |-> PlainExercises, completedAt |-> now - DAY_IN_MS],
    [exercises |-> PlainExercises, completedAt |-> now + 1] }

Next ==
  \/ Tick /\ UNCHANGED <<pending, equipment>>
  \/ ResponseSent /\ UNCHANGED <<pending, equipment>>
  \/ \E q \in DaysQueries : GetProgress(q) /\ UNCHANGED <<pending, equipment>>
  \/ posts < MaxPosts /\ \E body \in DateBodies : PostWorkoutLog(body) /\ UNCHANGED <<pending, equipment>>

Spec == Init /\ [][Next]_vars

----------------------------------------------------------------------------
(* Logs that differ in where their duration comes from                     *)

ExSeconds == [name |-> "plank", durationSeconds |-> 120]
ExMinutesAndSeconds == [name |-> "row", durationMinutes |-> 5, durationSeconds |-> 600]
ExHalfMinute == [name |-> "hang", durationSeconds |-> 90]
ExGenericAndSeconds == [name |-> "run", duration |-> 8, durationSeconds |-> 300]
ExNoDuration == [name |-> "squat", sets |-> 3]
ExShort == [name |-> "jump", durationSeconds |-> 29]

ExerciseLists ==
  { JsonArray(<<ExSeconds>>),
    JsonArray(<<ExMinutesAndSeconds, ExHalfMinute>>),
    JsonArray(<<ExGenericAndSeconds, ExNoDuration, ExShort>>) }

\* the key k set to v in the object obj
WithKey(obj, k, v) ==
  [x \in DOMAIN obj \cup {k} |-> IF x = k THEN v ELSE obj[x]]

\* valid bodies: exercises, with or without a workout and an own duration;
\* a workout alone; and bodies the handler rejects (400, 403, 404)
DurationBodies ==
  LET custom == {[exercises |-> e] : e \in ExerciseLists}
      linked == {WithKey(b, "workoutId", w) : b \in custom, w \in {1, 2}}
      timed == {WithKey(b, "durationMinutes", 30) : b \in custom \cup linked}
  IN  custom \cup linked \cup timed
        \cup { [workoutId |-> 1], [workoutId |-> NULL],
               [workoutId |-> 3, exercises |-> JsonArray(<<ExSeconds>>)],
               [workoutId |-> 9] }

InitDuration ==
  /\ now = EpochDay * DAY_IN_MS
  /\ users = {demoUserId, otherUserId}
  /\ plans = InitPlans
  /\ workouts = InitWorkouts
  /\ logs = <<ForeignRow(1)>>
  /\ nextId = 2
  /\ posts = 0
  /\ request = NoRequest
  /\ response = NoResponse
  /\ pending = <<>>
  /\ equipment = <<>>

NextDuration ==
  \/ ResponseSent /\ UNCHANGED <<pending, equipment>>
  \/ \E q \in {NULL, MinDays} : GetProgress(q) /\ UNCHANGED <<pending, equipment>>
  \/ posts < MaxDurationPosts /\ \E body \in DurationBodies : PostWorkoutLog(body) /\ UNCHANGED <<pending, equipment>>

SpecDuration == InitDuration /\ [][NextDuration]_vars

----------------------------------------------------------------------------
(* Logs with tags                                                          *)

\* bodies of POST that differ in their tags; one has an empty tag (rejected)
TagBodies ==
  { [exercises |-> PlainExercises, tags |-> JsonArray(<<"strength", "mobility">>)],
    [exercises |-> PlainExercises, tags |-> JsonArray(<<"strength">>)],
    [exercises |-> PlainExercises, tags |-> JsonArray(<<"mobility", "core">>)],
    [exercises |-> PlainExercises, tags |-> JsonNull],
    [exercises |-> PlainExercises, tags |-> JsonArray(<<"">>)] }

NextTags ==
  \/ Tick /\ UNCHANGED <<pending, equipment>>
  \/ ResponseSent /\ UNCHANGED <<pending, equipment>>
  \/ \E q \in {NULL, MinDays} : GetProgress(q) /\ UNCHANGED <<pending, equipment>>
  \/ posts < MaxDurationPosts /\ \E body \in TagBodies : PostWorkoutLog(body) /\ UNCHANGED <<pending, equipment>>

SpecTags == InitDuration /\ [][NextTags]_vars

----------------------------------------------------------------------------
(* Rows of every shape the columns admit (server/db.ts): completed_at and  *)
(* exercises are nullable, exercises is jsonb and rating an unconstrained  *)
(* integer.  The insert schema of the first release                        *)
(* (createInsertSchema(workoutLogs)) took any JSON as exercises and any    *)
(* integer as rating, so the table can hold such rows next to the ones the *)
(* present schema lets through.                                            *)

ExNameless == [durationMinutes |-> 7]
ExNegative == [name |-> "walk", duration |-> 0 - 5]
ExFraction == [name |-> "bike", duration |-> Half(2)]

LegacyRow(id, completedAt, exercises, rating) ==
  [ id |-> id, userId |-> demoUserId, workoutId |-> NULL,
    completedAt |-> completedAt, exercises |-> exercises,
    rating |-> rating, durationMinutes |-> NULL, tags |-> JsonNull ]

\* the rows in table order (completed_at, id; NULL last)
LegacyTable ==
  LET yesterday == (EpochDay - 1) * DAY_IN_MS
      today == EpochDay * DAY_IN_MS
  IN  << LegacyRow(1, yesterday, JsonArray(<<NonObject, ExSeconds>>), 0),
         LegacyRow(2, yesterday, JsonArray(<<ExNameless, ExHalfMinute>>), 4),
         LegacyRow(3, today, JsonNull, 2),
         LegacyRow(4, today, JsonArray(<<ExNegative>>), 3),
         LegacyRow(5, today, JsonArray(<<ExFraction, ExNoDuration>>), NULL),
         LegacyRow(6, NULL, PlainExercises, 5) >>

\* the rows of the table whose index is in keep, in table order
Pick(table, keep) ==
  LET before(i) == Cardinality({j \in keep : j < i})
  IN  [ k \in 1..Cardinality(keep) |->
          table[CHOOSE i \in keep : before(i) = k - 1] ]

InitShape ==
  /\ now = EpochDay * DAY_IN_MS
  /\ users = {demoUserId, otherUserId}
  /\ plans = InitPlans
  /\ workouts = InitWorkouts
  /\ \E keep \in SUBSET (1..Len(LegacyTable)) : logs = Pick(LegacyTable, keep)
  /\ nextId = Len(LegacyTable) + 1
  /\ posts = 0
  /\ request = NoRequest
  /\ response = NoResponse
  /\ pending = <<>>
  /\ equipment = <<>>

\* bodies of the present API: a negative and a fractional generic duration
\* (keys the exercise schema passes through), a linked log without
\* exercises, ratings, and a nameless exercise (rejected)
ShapeBodies ==
  { [exercises |-> JsonArray(<<ExNegative, ExShort>>), rating |-> 2],
    [exercises |-> JsonArray(<<ExFraction>>)],
    [workoutId |-> 2, rating |-> 5],
    [workoutId |-> 1, exercises |-> JsonNull, rating |-> NULL],
    [exercises |-> JsonArray(<<ExNoDuration>>), rating |-> 1],
    [exercises |-> JsonArray(<<ExNameless>>)] }

NextShape ==
  \/ ResponseSent /\ UNCHANGED <<pending, equipment>>
  \/ \E q \in {NULL, MinDays} : GetProgress(q) /\ UNCHANGED <<pending, equipment>>
  \/ posts < MaxPosts /\ \E body \in ShapeBodies : PostWorkoutLog(body) /\ UNCHANGED <<pending, equipment>>

SpecShape == InitShape /\ [][NextShape]_vars

----------------------------------------------------------------------------
(* Requests served while progress requests are suspended                   *)

MaxPending == 2

\* a log of workout 1 that also lists a timed exercise
InitConcurrent ==
  /\ now = EpochDay * DAY_IN_MS
  /\ users = {demoUserId, otherUserId}
  /\ plans = InitPlans
  /\ workouts = InitWorkouts
  /\ logs = << [LegacyRow(1, EpochDay * DAY_IN_MS, JsonArray(<<ExSeconds>>), 4)
                  EXCEPT !.workoutId = 1] >>
  /\ nextId = 2
  /\ posts = 0
  /\ request = NoRequest
  /\ response = NoResponse
  /\ pending = <<>>
  /\ equipment = <<>>

ConcurrentBodies ==
  { [exercises |-> JsonArray(<<ExHalfMinute>>)], [workoutId |-> 1] }

WorkoutUpdates == { [estimatedDuration |-> 60] }

NextConcurrent ==
  \/ ResponseSent /\ UNCHANGED <<pending, equipment>>
  \/ Len(pending) < MaxPending /\ BeginProgress(NULL) /\ UNCHANGED equipment
  \/ \E i \in 1..Len(pending) : FinishProgress(i) /\ UNCHANGED equipment
  \/ posts < MaxPosts /\ \E body \in ConcurrentBodies :
       PostWorkoutLog(body) /\ pending' = Observed(logs', workouts') /\ UNCHANGED equipment
  \/ \E id \in {1}, updates \in WorkoutUpdates :
       PutWorkout(id, updates) /\ pending' = Observed(logs', workouts') /\ UNCHANGED equipment
  \/ \E id \in {1} :
       DeleteWorkout(id) /\ pending' = Observed(logs', workouts') /\ UNCHANGED equipment
  \/ \E id \in 1..(nextId - 1) :
       DeleteWorkoutLog(id) /\ pending' = Observed(logs', workouts') /\ UNCHANGED equipment

SpecConcurrent == InitConcurrent /\ [][NextConcurrent]_vars

----------------------------------------------------------------------------
(* Creating and updating logs                                              *)

NoExercises == JsonArray(<<>>)

\* a custom log, a log of workout 1 without exercises, another user's log
InitLogs ==
  /\ now = EpochDay * DAY_IN_MS
  /\ users = {demoUserId, otherUserId}
  /\ plans = InitPlans
  /\ workouts = InitWorkouts
  /\ logs = << LegacyRow(1, (EpochDay - 1) * DAY_IN_MS, PlainExercises, NULL),
               [LegacyRow(2, EpochDay * DAY_IN_MS, JsonNull, 3)
                  EXCEPT !.workoutId = 1],
               ForeignRow(3) >>
  /\ nextId = 4
  /\ posts = 0
  /\ request = NoRequest
  /\ response = NoResponse
  /\ pending = <<>>
  /\ equipment = <<>>

\* bodies of POST: a custom log, a linked log, a linked log that names its
\* (empty) exercises, logs of another user's workout and of an unknown one,
\* and custom logs without an exercise
CreateBodies ==
  { [exercises |-> PlainExercises],
    [workoutId |-> 2],
    [workoutId |-> 1, exercises |-> NoExercises],
    [workoutId |-> 3, exercises |-> PlainExercises],
    [workoutId |-> 9],
    [workoutId |-> NULL, exercises |-> NoExercises],
    [exercises |-> JsonNull],
    [rating |-> 4] }

\* bodies of PUT: every combination of a workoutId (absent, null, own,
\* another user's, unknown) and exercises (absent, null, empty, one entry);
\* a rating alone, in and out of range
UpdateBodies ==
  LET workoutIds == { [x \in {} |-> NULL] } \cup
                      { [workoutId |-> w] : w \in {NULL, 1, 3, 9} }
      exerciseSets == { [x \in {} |-> NULL] } \cup
                        { [exercises |-> e] :
                            e \in {JsonNull, NoExercises, PlainExercises} }
      merge(a, b) == [k \in DOMAIN a \cup DOMAIN b |->
                        IF k \in DOMAIN a THEN a[k] ELSE b[k]]
      shapes == {merge(w, e) : w \in workoutIds, e \in exerciseSets}
  IN  shapes \cup {[rating |-> 5], [rating |-> 9]}

\* the ids a PUT names: the stored logs, and one that does not exist
UpdateIds == 1..(nextId - 1) \cup {nextId + 5}

NextLogs ==
  \/ ResponseSent /\ UNCHANGED <<pending, equipment>>
  \/ posts < MaxPosts /\ \E body \in CreateBodies : PostWorkoutLog(body) /\ UNCHANGED <<pending, equipment>>
  \/ \E id \in UpdateIds, body \in UpdateBodies : PutWorkoutLog(id, body) /\ UNCHANGED <<pending, equipment>>

SpecLogs == InitLogs /\ [][NextLogs]_vars

----------------------------------------------------------------------------
(* Deleting and updating workouts and plans                                *)

\* bodies of POST: a log of workout 1 without exercises, a log of workout 2
\* with an exercise, a custom log
LinkedBodies ==
  { [workoutId |-> 1],
    [workoutId |-> 2, exercises |-> PlainExercises],
    [exercises |-> PlainExercises] }

\* bodies of PUT /api/workouts/:id: a duration, another user's plan, the
\* user's own plan, a plan that does not exist, another id
WorkoutBodies ==
  { [estimatedDuration |-> 30],
    [planId |-> 2],
    [planId |-> 1, estimatedDuration |-> 30],
    [planId |-> 9],
    [id |-> 7] }

NextWorkouts ==
  \/ ResponseSent /\ UNCHANGED <<pending, equipment>>
  \/ posts < MaxPosts /\ \E body \in LinkedBodies : PostWorkoutLog(body) /\ UNCHANGED <<pending, equipment>>
  \/ \E id \in {1, 2, 3, 9}, updates \in WorkoutBodies :
       PutWorkout(id, updates) /\ UNCHANGED <<pending, equipment>>
  \/ \E id \in {1, 2, 9} : DeleteWorkout(id) /\ UNCHANGED <<pending, equipment>>
  \/ \E id \in {1, 2, 9} : DeleteWorkoutPlan(id) /\ UNCHANGED <<pending, equipment>>

SpecWorkouts == InitLogs /\ [][NextWorkouts]_vars

----------------------------------------------------------------------------
(* Updates of one log that overlap                                         *)

\* a log of workout 1 with an exercise, and a custom log
InitPuts ==
  /\ now = EpochDay * DAY_IN_MS
  /\ users = {demoUserId, otherUserId}
  /\ plans = InitPlans
  /\ workouts = InitWorkouts
  /\ logs = << [LegacyRow(1, EpochDay * DAY_IN_MS, PlainExercises, NULL)
                  EXCEPT !.workoutId = 1],
               LegacyRow(2, EpochDay * DAY_IN_MS, PlainExercises, 3) >>
  /\ nextId = 3
  /\ posts = 0
  /\ request = NoRequest
  /\ response = NoResponse
  /\ pending = <<>>
  /\ equipment = <<>>

\* bodies of PUT: the workout cleared, the workout set, the exercises
\* emptied, the exercises set
OverlapBodies ==
  { [workoutId |-> NULL],
    [workoutId |-> 1],
    [exercises |-> NoExercises],
    [exercises |-> PlainExercises] }

NextPuts ==
  \/ ResponseSent /\ UNCHANGED <<pending, equipment>>
  \/ Len(pending) < MaxPending /\ \E id \in {1, 2}, body \in OverlapBodies :
       BeginPutLog(id, body) /\ UNCHANGED equipment
  \/ \E i \in 1..Len(pending) : FinishPutLog(i) /\ UNCHANGED equipment

SpecPuts == InitPuts /\ [][NextPuts]_vars

----------------------------------------------------------------------------
(* Generating plans                                                        *)

\* what the chat-completion service may do
Upstreams ==
  { [kind |-> "timeout"], [kind |-> "network"] } \cup
  { [kind |-> "response", status |-> st, json |-> j, content |-> "none"] :
      st \in {400, 401, 403, 404, 429, 500, 503}, j \in BOOLEAN } \cup
  { [kind |-> "response", status |-> 200, json |-> TRUE, content |-> c] :
      c \in {"plan", "none", "incomplete"} } \cup
  { [kind |-> "response", status |-> 200, json |-> FALSE, content |-> "none"] }

\* request bodies: a valid one, one without goals, one with zero minutes
GenerateBodies ==
  { [goals |-> 1, weeklyMinutes |-> 90, dailyMinutes |-> 30],
    [goals |-> 0, weeklyMinutes |-> 90, dailyMinutes |-> 30],
    [goals |-> 2, weeklyMinutes |-> 0, dailyMinutes |-> 30] }

InitGenerate ==
  /\ now = EpochDay * DAY_IN_MS
  /\ users = {demoUserId, otherUserId}
  /\ plans = InitPlans
  /\ workouts = InitWorkouts
  /\ logs = <<>>
  /\ nextId = 4
  /\ posts = 0
  /\ request = NoRequest
  /\ response = NoResponse
  /\ pending = <<>>
  /\ equipment = <<>>

NextGenerate ==
  \/ ResponseSent /\ UNCHANGED <<pending, equipment>>
  \/ /\ Len(plans) < MaxPlans
     /\ \E body \in GenerateBodies, upstream \in Upstreams,
           failAt \in 0..(2 + Len(GeneratedWorkouts)) :
          GenerateWorkoutPlan(body, upstream, failAt)
     /\ UNCHANGED <<pending, equipment>>

SpecGenerate == InitGenerate /\ [][NextGenerate]_vars

-----------------------------------------------------------------------------
(* server/seed.ts: the demo data and the run of the seed command            *)

\* DEMO_USER.id, the user the routes resolve as well
DEMO_USER == demoUserId

\* the ids the seed writes itself, where every other id is generated
SeedPlanId == 100
SeedWorkoutIds == <<101, 102, 103>>
SeedLogIds == <<111, 112, 113, 114>>

\* new Date(y, m, d, hours, minutes) within its day
TimeOfDay(hours, minutes) == ((hours * 60 + minutes) * DAY_IN_MS) \div (24 * 60)

\* new Date(now.getFullYear(), now.getMonth(), now.getDate() - daysAgo, h, m)
LocalDate(clock, daysAgo, hours, minutes) ==
  StartOfDay(clock) - daysAgo * DAY_IN_MS + TimeOfDay(hours, minutes)

equipmentSeed ==
  << [userId |-> DEMO_USER, type |-> "dumbbell"],
     [userId |-> DEMO_USER, type |-> "resistance_band"],
     [userId |-> DEMO_USER, type |-> "mat"] >>

planSeed == [id |-> SeedPlanId, userId |-> DEMO_USER]

workoutsSeed ==
  << [id |-> SeedWorkoutIds[1], planId |-> SeedPlanId, estimatedDuration |-> 32],
     [id |-> SeedWorkoutIds[2], planId |-> SeedPlanId, estimatedDuration |-> 28],
     [id |-> SeedWorkoutIds[3], planId |-> SeedPlanId, estimatedDuration |-> 26] >>

logSeeds(clock) ==
  << [ id |-> SeedLogIds[1], userId |-> DEMO_USER, workoutId |-> workoutsSeed[1].id,
       completedAt |-> LocalDate(clock, 1, 18, 30),
       exercises |-> JsonArray(<<[name |-> "Goblet Squat", sets |-> 3]>>),
       rating |-> 4, durationMinutes |-> 38,
       tags |-> JsonArray(<<"strength", "lower-body">>) ],
     [ id |-> SeedLogIds[2], userId |-> DEMO_USER, workoutId |-> workoutsSeed[2].id,
       completedAt |-> LocalDate(clock, 3, 7, 45),
       exercises |-> JsonArray(<<[name |-> "Single-Arm Dumbbell Row", sets |-> 3]>>),
       rating |-> 5, durationMinutes |-> 34,
       tags |-> JsonArray(<<"strength", "upper-body">>) ],
     [ id |-> SeedLogIds[3], userId |-> DEMO_USER, workoutId |-> workoutsSeed[3].id,
       completedAt |-> LocalDate(clock, 5, 19, 15),
       exercises |-> JsonArray(<<[name |-> "Band Good Morning", sets |-> 3]>>),
       rating |-> 3, durationMinutes |-> 31,
       tags |-> JsonArray(<<"conditioning", "mobility">>) ],
     [ id |-> SeedLogIds[4], userId |-> DEMO_USER, workoutId |-> NULL,
       completedAt |-> LocalDate(clock, 2, 12, 15),
       exercises |-> JsonArray(<<[name |-> "Outdoor Recovery Walk"]>>),
       rating |-> 4, durationMinutes |-> 25,
       tags |-> JsonArray(<<"recovery", "cardio">>) ] >>

\* the ids of the rows of a table
IdsOf(table) == {table[i].id : i \in 1..Len(table)}

\* INSERT ... VALUES rows: refused as a whole when an id is already taken
InsertRefused(table, rows) == IdsOf(table) \cap IdsOf(rows) # {}

\* the rows of a table in query order after all of rows are inserted
RECURSIVE InsertRows(_, _)
InsertRows(table, rows) ==
  IF rows = <<>> THEN table
  ELSE InsertRows(InsertRow(table, Head(rows)), Tail(rows))

\* a deletion of the logs the seed wrote before, whoever's they are now
deleteSeededLogs(table) ==
  SelectSeq(table, LAMBDA l : \A k \in 1..Len(SeedLogIds) : l.id # SeedLogIds[k])

\* tx.delete(workoutLogsTable).where(eq(userId, DEMO_USER.id))
deleteDemoLogs(table) == SelectSeq(table, LAMBDA l : l.userId # DEMO_USER)

\* the statements of the transaction up to the inserts: the demo user's
\* logs, the workouts of the demo user's plans (the logs of others that
\* reference them keep their row without the workout), the plans and the
\* equipment are deleted
seedCleared ==
  LET planIds == {plans[i].id : i \in {j \in 1..Len(plans) : plans[j].userId = DEMO_USER}}
      gone == {workouts[i].id : i \in {j \in 1..Len(workouts) : workouts[j].planId \in planIds}}
      kept == deleteDemoLogs(logs)
  IN  [ users |-> users \cup {DEMO_USER},
        logs |-> [ i \in 1..Len(kept) |->
                     IF kept[i].workoutId \in gone
                     THEN [kept[i] EXCEPT !.workoutId = NULL] ELSE kept[i] ],
        workouts |-> SelectSeq(workouts, LAMBDA w : w.planId \notin planIds),
        plans |-> SelectSeq(plans, LAMBDA p : p.userId # DEMO_USER),
        equipment |-> SelectSeq(equipment, LAMBDA e : e.userId # DEMO_USER) ]

\* an insert of the transaction is refused by a primary key
seedRefused(clock) ==
  \/ InsertRefused(seedCleared.plans, <<planSeed>>)
  \/ InsertRefused(seedCleared.workouts, workoutsSeed)
  \/ InsertRefused(seedCleared.logs, logSeeds(clock))

\* the store the transaction commits
seedCommitted(clock) ==
  [ users |-> seedCleared.users,
    equipment |-> seedCleared.equipment \o
                  [ k \in 1..Len(equipmentSeed) |->
                      [ id |-> nextId + k - 1,
                        userId |-> equipmentSeed[k].userId,
                        type |-> equipmentSeed[k].type ] ],
    plans |-> Append(seedCleared.plans, planSeed),
    workouts |-> seedCleared.workouts \o workoutsSeed,
    logs |-> InsertRows(seedCleared.logs, logSeeds(clock)) ]

\* the awaited statements of the transaction
SeedStatements == 10

\* seedDemoData() and the exit of the process: db.transaction commits all of
\* the statements or, when one of them throws (the connection fails at
\* statement failAt, or an insert is refused), none of them
Seed(failAt) ==
  LET failed == failAt # 0 \/ seedRefused(now)
      db == seedCommitted(now)
  IN  /\ Idle
      /\ request' = [ kind |-> "seed", failAt |-> failAt,
                      exitCode |-> IF failed THEN 1 ELSE 0,
                      before |-> [ users |-> users, equipment |-> equipment,
                                   plans |-> plans, workouts |-> workouts,
                                   logs |-> logs ] ]
      /\ response' = NoResponse
      /\ UNCHANGED <<now, posts, pending>>
      /\ IF failed
         THEN UNCHANGED <<users, equipment, plans, workouts, logs, nextId>>
         ELSE /\ users' = db.users
              /\ equipment' = db.equipment
              /\ plans' = db.plans
              /\ workouts' = db.workouts
              /\ logs' = db.logs
              /\ nextId' = nextId + Len(equipmentSeed)

-----------------------------------------------------------------------------
(* Seeding: the seed command is run between requests, on a store that holds *)
(* rows of the demo user and of another user                                *)

MaxSeedId == 11      \* generated ids a behaviour of SpecSeed uses

InitEquipment ==
  << [id |-> 1, userId |-> demoUserId, type |-> "kettlebell"],
     [id |-> 2, userId |-> otherUserId, type |-> "mat"] >>

InitSeed ==
  /\ now = EpochDay * DAY_IN_MS
  /\ users = {demoUserId, otherUserId}
  /\ plans = InitPlans
  /\ workouts = InitWorkouts
  /\ logs = HistoryTable(2)
  /\ nextId = 4
  /\ posts = 0
  /\ request = NoRequest
  /\ response = NoResponse
  /\ pending = <<>>
  /\ equipment = InitEquipment

\* log bodies: a custom log, a log of a seeded workout
SeedBodies ==
  { [exercises |-> PlainExercises], [workoutId |-> SeedWorkoutIds[1]] }

\* workout updates: to the plan of the other user, to the id of a seeded workout
SeedUpdates == { [planId |-> 2], [id |-> SeedWorkoutIds[1]] }

NextSeed ==
  \/ Tick /\ UNCHANGED <<pending, equipment>>
  \/ ResponseSent /\ UNCHANGED <<pending, equipment>>
  \/ /\ nextId + Len(equipmentSeed) <= MaxSeedId
     /\ \E failAt \in 0..SeedStatements : Seed(failAt)
  \/ posts < MaxPosts /\ \E body \in SeedBodies : PostWorkoutLog(body) /\ UNCHANGED <<pending, equipment>>
  \/ \E id \in {3, SeedWorkoutIds[1]}, updates \in SeedUpdates :
       PutWorkout(id, updates) /\ UNCHANGED <<pending, equipment>>

SpecSeed == InitSeed /\ [][NextSeed]_vars

----------------------------------------------------------------------------
(* Properties of the progress report.  They are stated on the state right  *)
(* after GET /api/progress has answered 200: request holds the window, the *)
(* two clock reads (endDate, today) and response.body the report; the      *)
(* tables are as the handler read them.                                    *)

Answered == request.kind = "progress" /\ response.status = 200

\* the logs the handler fetched and handed to calculateCurrentStreak
Fetched ==
  getWorkoutLogsByDateRange(logs, demoUserId,
    startDateOf(request.endDate, request.daysNumber), request.endDate)

\* the calendar day of the clock read inside calculateCurrentStreak
StreakToday == request.today \div DAY_IN_MS

\* the calendar day of endDate
ReportToday == request.endDate \div DAY_IN_MS

\* the calendar days on which some fetched log was completed
FetchedDays ==
  LET f == Fetched
  IN  { f[i].completedAt \div DAY_IN_MS :
          i \in {j \in 1..Len(f) : f[j].completedAt # NULL} }

\* number of days of lo..hi that are in the set days
LoggedDaysIn(days, lo, hi) == Cardinality({d \in lo..hi : d \in days})

\* length of the run of consecutive days of the set days that ends at day d
RunEndingAt(days, d) ==
  LET broken == {k \in 0..d : (d - k) \notin days}
  IN  IF broken = {} THEN d + 1
      ELSE CHOOSE k \in broken : \A j \in broken : k <= j

\* the reference backward scan of the spec over the logged days: today,
\* today-1, ..., today-29; it stops at the first empty day other than today
ReferenceScan(days, today) ==
  LET stops == {i \in 1..(ScanDays - 1) : (today - i) \notin days}
      stop == IF stops = {} THEN ScanDays
              ELSE CHOOSE i \in stops : \A j \in stops : i <= j
  IN  Cardinality({i \in 0..(stop - 1) : (today - i) \in days})

\* C1: calculateCurrentStreak returns exactly the result of the reference
\* backward scan over today, today-1, ..., today-29 of the logs it is given:
\* a day with a log counts, an empty day stops the scan unless it is today.
C1_StreakIsReferenceScan ==
  Answered =>
    response.body.currentStreak = ReferenceScan(FetchedDays, StreakToday)

\* C1 witness: a report whose streak is at least 2 although today is empty
C1_Witness ==
  /\ Answered
  /\ StreakToday \notin FetchedDays
  /\ response.body.currentStreak >= 2

\* C2 (as claimed): when today has no log, the streak equals the number of
\* consecutive days with at least one log ending at yesterday.
C2_Claim_RunEndingYesterday ==
  (Answered /\ StreakToday \notin FetchedDays) =>
    response.body.currentStreak = RunEndingAt(FetchedDays, StreakToday - 1)

\* C2 (amended): when today has no log, the streak is not reset: it equals
\* the number of consecutive days with at least one log ending at yesterday,
\* counted over the 29 days before today that the 30-day scan covers.
C2_RunEndingYesterdayCapped ==
  (Answered /\ StreakToday \notin FetchedDays) =>
    response.body.currentStreak
      = Min(ScanDays - 1, RunEndingAt(FetchedDays, StreakToday - 1))

\* C2 witness: logs yesterday and the day before, none today, none three
\* days ago: the streak is 2
C2_Witness ==
  /\ Answered
  /\ StreakToday \notin FetchedDays
  /\ (StreakToday - 1) \in FetchedDays
  /\ (StreakToday - 2) \in FetchedDays
  /\ (StreakToday - 3) \notin FetchedDays
  /\ response.body.currentStreak = 2

\* the most recent day before today without a log is g
LastGap(days, today, g) ==
  /\ g < today
  /\ g \notin days
  /\ \A d \in (g + 1)..(today - 1) : d \in days

\* C3: a day before today with no log ends the count: with g the most recent
\* such day (among the 29 days the scan looks at before today), the streak is
\* the number of logged days after g, so logs dated before g never contribute.
C3_GapEndsStreak ==
  Answered =>
    \A g \in (StreakToday - ScanDays + 1)..(StreakToday - 1) :
      LastGap(FetchedDays, StreakToday, g) =>
        response.body.currentStreak = LoggedDaysIn(FetchedDays, g + 1, StreakToday)

\* C3 witness: a log today and two days ago, none yesterday: the streak is 1
C3_Witness ==
  /\ Answered
  /\ StreakToday \in FetchedDays
  /\ (StreakToday - 1) \notin FetchedDays
  /\ (StreakToday - 2) \in FetchedDays
  /\ response.body.currentStreak = 1

\* the currentStreak GET /api/progress reports for a window of d days, with
\* the store and the two clock reads of the request just served
StreakForWindow(d) ==
  calculateCurrentStreak(
    getWorkoutLogsByDateRange(logs, demoUserId,
      startDateOf(request.endDate, d), request.endDate),
    request.today)

\* C4 (as claimed): for a fixed log store and a fixed now, the reported
\* currentStreak is the same for every windowDays in 1..31.
C4_Claim_StreakIndependentOfWindow ==
  Answered =>
    \A d \in MinDays..MaxDays : StreakForWindow(d) = response.body.currentStreak

\* number of fetched logs completed on calendar day d
FetchedOnDay(d) ==
  LET f == Fetched
  IN  Cardinality({i \in 1..Len(f) :
        f[i].completedAt # NULL /\ f[i].completedAt \div DAY_IN_MS = d})

\* C5: the daily series has exactly windowDays entries, one per calendar day
\* from today-(windowDays-1) to today in chronological order, today's entry
\* last: the k-th entry carries the weekday label of the k-th day of the
\* window and the number of fetched logs of that day.
C5_DailySeriesCoversWindow ==
  Answered =>
    /\ Len(response.body.dailyStats) = request.daysNumber
    /\ \A k \in 1..Len(response.body.dailyStats) :
         LET day == ReportToday - (request.daysNumber - k)
         IN  /\ response.body.dailyStats[k].date = day % 7
             /\ response.body.dailyStats[k].workouts = FetchedOnDay(day)

\* C5 witness: a report for the largest window whose first and last entries
\* both have workouts
C5_Witness ==
  /\ Answered
  /\ request.daysNumber = MaxDays
  /\ Len(response.body.dailyStats) = MaxDays
  /\ response.body.dailyStats[1].workouts > 0
  /\ response.body.dailyStats[MaxDays].workouts > 0

\* the number of the user's stored logs completed on calendar day d, up to
\* the instant upTo
StoredOnDay(d, upTo) ==
  Cardinality({i \in 1..Len(logs) :
    /\ logs[i].userId = demoUserId
    /\ logs[i].completedAt # NULL
    /\ logs[i].completedAt \div DAY_IN_MS = d
    /\ logs[i].completedAt <= upTo})

\* C6 (as claimed): for every day of the window the entry's workout count is
\* the number of the user's stored logs completed on that calendar day up to
\* now, whatever their time of day.
C6_Claim_DailyCountsWholeDays ==
  Answered =>
    \A k \in 1..Len(response.body.dailyStats) :
      response.body.dailyStats[k].workouts
        = StoredOnDay(ReportToday - (request.daysNumber - k), request.endDate)

\* C7: the streak of a daily entry is the forward accumulator: 0 on a day
\* without workouts, otherwise the previous entry's streak plus 1 (1 for the
\* first entry of the window).
C7_RunningStreakAccumulates ==
  Answered =>
    \A k \in 1..Len(response.body.dailyStats) :
      LET entry == response.body.dailyStats[k]
          before == IF k = 1 THEN 0 ELSE response.body.dailyStats[k - 1].streak
      IN  entry.streak = IF entry.workouts = 0 THEN 0 ELSE before + 1

\* C7 witness: the accumulator exceeds 1, and today's entry is empty with 0
C7_Witness ==
  /\ Answered
  /\ \E k \in 1..Len(response.body.dailyStats) :
       response.body.dailyStats[k].streak >= 3
  /\ response.body.dailyStats[Len(response.body.dailyStats)].workouts = 0
  /\ response.body.dailyStats[Len(response.body.dailyStats)].streak = 0

\* the fetched logs completed in [endDate - 6 days, endDate]
InTrailingWeek ==
  LET f == Fetched
  IN  {i \in 1..Len(f) :
         /\ f[i].completedAt >= request.endDate - (WeekDays - 1) * DAY_IN_MS
         /\ f[i].completedAt <= request.endDate}

InvalidWindow(q) ==
  /\ q # NULL /\ q # EmptyText
  /\ (q = NaN \/ IsHalf(q) \/ q < 1 \/ q > 31)

BundleFields ==
  { "dailyStats", "totalWorkouts", "currentStreak", "workoutsThisWeek",
    "totalMinutes", "averageRating", "averageRpe", "totalCalories",
    "tagBreakdown", "weeklySummaries", "rangeDays" }

\* C17 (as claimed): every successful progress response carries the whole
\* bundle: daily series, total workouts, current streak, this-week count,
\* total minutes, average rating, average RPE, total calories, tag
\* breakdown, weekly summaries, and rangeDays equal to the windowDays used.
C17_Claim_WholeBundle ==
  Answered =>
    /\ BundleFields \subseteq DOMAIN response.body
    /\ response.body.rangeDays = request.daysNumber

\* the weekly summaries whose days weekStart..weekEnd include day d
BucketsWithDay(summaries, d) ==
  {k \in 1..Len(summaries) :
     summaries[k].weekStart <= d /\ d <= summaries[k].weekEnd}

\* C18 (as claimed): the weekly summaries are trailing buckets of at most 7
\* days ending at today that cover every day of the window exactly once,
\* and their workout counts add up to the number of logs in the window.
C18_Claim_WeeklySummariesPartitionWindow ==
  Answered =>
    /\ "weeklySummaries" \in DOMAIN response.body
    /\ LET summaries == response.body.weeklySummaries
           oldest == ReportToday - request.daysNumber + 1
       IN  /\ \A d \in oldest..ReportToday :
                Cardinality(BucketsWithDay(summaries, d)) = 1
           /\ \A k \in 1..Len(summaries) :
                /\ oldest <= summaries[k].weekStart
                /\ summaries[k].weekStart <= summaries[k].weekEnd
                /\ summaries[k].weekEnd <= ReportToday
                /\ summaries[k].weekEnd - summaries[k].weekStart < WeekDays
                /\ (ReportToday - summaries[k].weekEnd) % WeekDays = 0
           /\ SumSeq([k \in 1..Len(summaries) |-> summaries[k].workouts])
                = Len(Fetched)

\* every tag occurrence of the fetched logs, in the order of the logs
RECURSIVE TagOccurrences(_)
TagOccurrences(rows) ==
  IF rows = <<>> THEN <<>>
  ELSE (IF Head(rows).tags.array THEN Head(rows).tags.items ELSE <<>>)
         \o TagOccurrences(Tail(rows))

\* how often the tag occurs, and where it occurs first
TagCount(occurrences, tag) ==
  Cardinality({i \in 1..Len(occurrences) : occurrences[i] = tag})
FirstSeen(occurrences, tag) ==
  CHOOSE i \in 1..Len(occurrences) :
    occurrences[i] = tag /\ \A j \in 1..(i - 1) : occurrences[j] # tag

\* C19 (as claimed): the tag breakdown has one entry per tag of the logs,
\* with the number of its occurrences across all logs' tags, ordered by
\* descending count and, for equal counts, by first occurrence.
C19_Claim_TagBreakdownRanked ==
  Answered =>
    /\ "tagBreakdown" \in DOMAIN response.body
    /\ LET ranked == response.body.tagBreakdown
           seen == TagOccurrences(Fetched)
       IN  /\ {ranked[k].tag : k \in 1..Len(ranked)}
                = {seen[i] : i \in 1..Len(seen)}
           /\ \A k \in 1..Len(ranked) :
                ranked[k].count = TagCount(seen, ranked[k].tag)
           /\ \A j, k \in 1..Len(ranked) :
                j < k =>
                  \/ ranked[j].count > ranked[k].count
                  \/ /\ ranked[j].count = ranked[k].count
                     /\ FirstSeen(seen, ranked[j].tag) < FirstSeen(seen, ranked[k].tag)

----------------------------------------------------------------------------
(* Properties of totalMinutes (checked under SpecDuration)                 *)

\* the fetched logs with the workouts they reference
FetchedWithWorkouts == enrichLogsWithWorkouts(Fetched, workouts)

\* seconds / 60 rounded to the nearest integer (a half rounds up)
NearestMinute(seconds) ==
  CHOOSE m \in 0..seconds :
    60 * m - 30 <= seconds /\ seconds < 60 * m + 30

\* what one exercise contributes according to the spec
ClaimedContribution(e) ==
  IF "durationMinutes" \in DOMAIN e THEN e.durationMinutes
  ELSE IF "duration" \in DOMAIN e THEN e.duration
  ELSE IF "durationSeconds" \in DOMAIN e THEN NearestMinute(e.durationSeconds)
  ELSE 0

\* the sum of the contributions of a log's exercises
ClaimedExerciseSum(log) ==
  IF log.exercises.array
  THEN SumSeq([i \in 1..Len(log.exercises.items) |->
                 ClaimedContribution(log.exercises.items[i])])
  ELSE 0

\* the duration of a log by the spec's priority order
ClaimedLogMinutes(entry) ==
  IF entry.log.durationMinutes # NULL /\ entry.log.durationMinutes > 0
  THEN entry.log.durationMinutes
  ELSE IF entry.workout.estimatedDuration # NULL
  THEN entry.workout.estimatedDuration
  ELSE ClaimedExerciseSum(entry.log)

\* C8 (as claimed): the duration of a log is its own durationMinutes when
\* present and positive, else the linked workout's estimatedDuration, else
\* the sum over its exercises; totalMinutes is the sum of these durations.
C8_Claim_DurationPriority ==
  Answered =>
    LET entries == FetchedWithWorkouts
    IN  response.body.totalMinutes
          = SumSeq([i \in 1..Len(entries) |-> ClaimedLogMinutes(entries[i])])

\* the duration of this log comes from its exercises, by the spec and by the
\* code: no own duration and no linked workout with an estimate
ExerciseDerived(entry) ==
  /\ entry.log.durationMinutes = NULL
  /\ entry.workout.estimatedDuration = NULL

\* C9: when the durations of the logs are derived from their exercises, each
\* exercise contributes its durationMinutes if present, else its generic
\* duration, else durationSeconds / 60 rounded to the nearest integer, else 0.
C9_ExerciseContribution ==
  LET entries == FetchedWithWorkouts
  IN  (Answered /\ \A i \in 1..Len(entries) : ExerciseDerived(entries[i])) =>
        response.body.totalMinutes
          = SumSeq([i \in 1..Len(entries) |-> ClaimedExerciseSum(entries[i].log)])

\* C9 witness: exercise-derived logs, one with an exercise that has both
\* durationMinutes and durationSeconds and one that has only a generic
\* duration next to its seconds: 5 + 2 + 8 + 0 + 0 minutes
C9_Witness ==
  LET entries == FetchedWithWorkouts
  IN  /\ Answered
      /\ \A i \in 1..Len(entries) : ExerciseDerived(entries[i])
      /\ \E i \in 1..Len(entries) :
           entries[i].log.exercises.items = <<ExMinutesAndSeconds, ExHalfMinute>>
      /\ \E i \in 1..Len(entries) :
           entries[i].log.exercises.items
             = <<ExGenericAndSeconds, ExNoDuration, ExShort>>
      /\ response.body.totalMinutes = 15

----------------------------------------------------------------------------
(* Properties of the report on rows of every shape (checked under          *)
(* SpecShape)                                                              *)

\* a valid GET /api/progress has been served
ServedProgress == request.kind = "progress" /\ ValidDaysQuery(request.days)

\* the value is a JSON number that is an integer and not negative
IsCount(v) == ~IsHalf(v) /\ v >= 0

\* among the fetched logs whose duration is taken from their exercises there
\* is one with null exercises, one with an entry that is not an object, one
\* with an entry without duration fields (each when asked for)
ShapeFetched(withNullExercises, withNonObject, withoutDuration) ==
  LET entries == enrichLogsWithWorkouts(Fetched, workouts)
      derived == {i \in 1..Len(entries) : ~hasEstimate(entries[i])}
      arrays == {i \in derived : entries[i].log.exercises.array}
  IN  /\ withNullExercises =>
           \E i \in derived : ~entries[i].log.exercises.array
      /\ withNonObject =>
           \E i \in arrays : \E k \in 1..Len(entries[i].log.exercises.items) :
             ~IsObject(entries[i].log.exercises.items[k])
      /\ withoutDuration =>
           \E i \in arrays : \E k \in 1..Len(entries[i].log.exercises.items) :
             entries[i].log.exercises.items[k] = ExNoDuration

\* C11: every valid progress request is answered 200 with a well-formed
\* report, whatever the shape of the stored rows (null completedAt,
\* exercises that are not an array, entries that are not objects or have no
\* duration field): windowDays daily entries and non-negative integer
\* totals; when no log is fetched every daily entry has 0 workouts and 0
\* streak and totalWorkouts, averageRating, currentStreak, workoutsThisWeek
\* and totalMinutes are all 0.
C11_WellFormedReportForAnyShape ==
  ServedProgress =>
    /\ response.status = 200
    /\ { "dailyStats", "totalWorkouts", "averageRating", "currentStreak",
         "workoutsThisWeek", "totalMinutes" } \subseteq DOMAIN response.body
    /\ Len(response.body.dailyStats) = request.daysNumber
    /\ \A k \in 1..Len(response.body.dailyStats) :
         /\ IsCount(response.body.dailyStats[k].workouts)
         /\ IsCount(response.body.dailyStats[k].streak)
    /\ IsCount(response.body.totalWorkouts)
    /\ IsCount(response.body.averageRating)
    /\ IsCount(response.body.currentStreak)
    /\ IsCount(response.body.workoutsThisWeek)
    /\ IsCount(response.body.totalMinutes)
    /\ Fetched = <<>> =>
         /\ \A k \in 1..Len(response.body.dailyStats) :
              /\ response.body.dailyStats[k].workouts = 0
              /\ response.body.dailyStats[k].streak = 0
         /\ response.body.totalWorkouts = 0
         /\ response.body.averageRating = 0
         /\ response.body.currentStreak = 0
         /\ response.body.workoutsThisWeek = 0
         /\ response.body.totalMinutes = 0

\* C11 witness: a 200 report over a store that holds a log without
\* completedAt, computed from fetched logs with null exercises, with an
\* entry that is not an object and with an entry without duration fields
C11_Witness ==
  /\ ServedProgress
  /\ response.status = 200
  /\ \E i \in 1..Len(logs) :
       logs[i].userId = demoUserId /\ logs[i].completedAt = NULL
  /\ ShapeFetched(TRUE, TRUE, TRUE)

\* an exercise entry the schema calls well-formed: an object with a name
HasName(e) == IsObject(e) /\ "name" \in DOMAIN e /\ e.name # ""

\* the exercise sum of a log when malformed entries are passed over
ClaimedSkippingSum(log) ==
  IF log.exercises.array
  THEN SumNumbers([i \in 1..Len(log.exercises.items) |->
                     IF HasName(log.exercises.items[i])
                     THEN ClaimedContribution(log.exercises.items[i])
                     ELSE 0])
  ELSE 0

\* C12 (as claimed): when the durations are derived from the exercises, an
\* entry that is not an object or has no name contributes 0 minutes even if
\* it carries duration fields, and the other entries of the log are summed.
C12_Claim_MalformedEntriesSkipped ==
  LET entries == FetchedWithWorkouts
  IN  (Answered /\ \A i \in 1..Len(entries) : ExerciseDerived(entries[i])) =>
        response.body.totalMinutes
          = Max(0, MathRound(SumNumbers(
              [i \in 1..Len(entries) |-> ClaimedSkippingSum(entries[i].log)])))

\* the total of the fetched logs as the reduce sums it, before the report
\* rounds and clamps it
SummedMinutes == totalMinutesOf(FetchedWithWorkouts)

\* C13: totalMinutes of every report is an integer and not negative, also
\* when exercises carry negative or fractional values under duration, a key
\* the exercise schema passes through unvalidated.
C13_TotalMinutesNonNegativeInteger ==
  Answered =>
    /\ ~IsHalf(response.body.totalMinutes)
    /\ response.body.totalMinutes >= 0
    /\ (~IsHalf(SummedMinutes) /\ SummedMinutes >= 0) =>
         response.body.totalMinutes = SummedMinutes

\* C13 witness: the durations sum to a negative number with a fraction
\* (-5 + 2.5) and the report says 0
C13_Witness ==
  /\ Answered
  /\ IsHalf(SummedMinutes)
  /\ Floor(SummedMinutes) < 0
  /\ response.body.totalMinutes = 0

\* the fetched logs that have a rating greater than 0
PresentRatings ==
  LET f == Fetched
  IN  {i \in 1..Len(f) : f[i].rating # NULL /\ f[i].rating > 0}

\* the sum of the ratings of the logs in the set rated
RatingSum(rated) ==
  LET f == Fetched
  IN  SumSeq([i \in 1..Len(f) |-> IF i \in rated THEN f[i].rating ELSE 0])

\* sum / n to one decimal place, in tenths: the integer t nearest to
\* 10 * sum / n, the upper one when two are equally near
OneDecimal(sum, n) ==
  CHOOSE t \in 0..(10 * sum) :
    2 * n * t - n <= 20 * sum /\ 20 * sum < 2 * n * t + n

\* C14: averageRating is the mean of the ratings that are present and
\* greater than 0, rounded to one decimal place; logs with a null or
\* non-positive rating count neither in the sum nor in the number of
\* ratings, and the average is 0 when no log has such a rating.
C14_AverageRatingOverPresentRatings ==
  Answered =>
    LET rated == PresentRatings
    IN  response.body.averageRating
          = IF rated = {} THEN 0
            ELSE OneDecimal(RatingSum(rated), Cardinality(rated))

\* C14 witness: four ratings whose mean 11/4 lies halfway between two
\* tenths, next to a log rated 0 and a log without rating: 2.8
C14_Witness ==
  LET f == Fetched
  IN  /\ Answered
      /\ Cardinality(PresentRatings) = 4
      /\ RatingSum(PresentRatings) = 11
      /\ \E i \in 1..Len(f) : f[i].rating = NULL
      /\ \E i \in 1..Len(f) : f[i].rating = 0
      /\ response.body.averageRating = 28

----------------------------------------------------------------------------
(* Properties of the stored logs (checked under SpecLogs)                  *)

\* a log without workout that has no exercise
EmptyCustomLog(row) == row.workoutId = NULL /\ ExerciseCountOf(row) = 0

\* the stored log as the request body would leave it: the fields the body
\* names take the body's value
MergedLog(row, body) ==
  [ k \in DOMAIN row |-> IF k \in DOMAIN body THEN body[k] ELSE row[k] ]

\* the last step served a create or update request that would leave a log
\* without workout and without exercise
WouldBreakRule ==
  \/ /\ request'.kind = "postLog"
     /\ EmptyCustomLog(MergedLog(NullLog, request'.body))
  \/ /\ request'.kind = "putLog"
     /\ \E i \in 1..Len(logs) :
          /\ logs[i].id = request'.id
          /\ logs[i].userId = demoUserId
          /\ EmptyCustomLog(MergedLog(logs[i], request'.body))

\* C16: through every sequence of POST /api/workout-logs and
\* PUT /api/workout-logs/:id requests, every stored log whose workoutId is
\* null has at least one entry in exercises; a request that would break this
\* is answered 400 and leaves the stored logs unchanged.
C16_CustomLogsKeepAnExercise ==
  /\ [](\A i \in 1..Len(logs) : ~EmptyCustomLog(logs[i]))
  /\ [][WouldBreakRule => response'.status = 400 /\ logs' = logs]_vars

\* C16 witness: a PUT that only empties the exercises of a custom log has
\* been answered 400, after another PUT had turned a linked log into a
\* custom one with an exercise
C16_Witness ==
  /\ request.kind = "putLog"
  /\ request.body = [exercises |-> NoExercises]
  /\ response.status = 400
  /\ \E i \in 1..Len(logs) :
       /\ logs[i].id = request.id
       /\ logs[i].id = 2
       /\ logs[i].workoutId = NULL
       /\ ExerciseCountOf(logs[i]) > 0

----------------------------------------------------------------------------
(* Properties of a progress request among other requests (checked under    *)
(* SpecConcurrent)                                                         *)

\* a progress request that was suspended between its reads has answered 200
AnsweredSuspended ==
  /\ request.kind = "progress"
  /\ "seen" \in DOMAIN request
  /\ response.status = 200

\* C20 (as claimed): a progress report computed while other requests
\* create, update or delete logs and workouts is the report of one state
\* that the store was in during the request: logs and workouts are never
\* taken from two different states.
C20_Claim_ReportOfOneSnapshot ==
  AnsweredSuspended =>
    \E snapshot \in request.seen :
      response.body = progressReport(snapshot[1], snapshot[2], request.endDate,
                                     request.today, request.daysNumber)

----------------------------------------------------------------------------
(* The headline figures against the daily series (checked under Spec)      *)

\* the entry of endDate's day, the last of the series
TodayEntry == response.body.dailyStats[Len(response.body.dailyStats)]

\* the running streak of the entry before the last, 0 when there is none
YesterdayStreak ==
  IF Len(response.body.dailyStats) < 2 THEN 0
  ELSE response.body.dailyStats[Len(response.body.dailyStats) - 1].streak

\* C23 (as claimed): the headline streak agrees with the daily series, also
\* when the clock passes midnight while the request is served: with a
\* workout in today's entry currentStreak = min(today's running streak, 30),
\* otherwise min(yesterday's running streak, 29), which is 0 for a window of
\* one day.
C23_Claim_StreakAgreesWithSeries ==
  Answered =>
    response.body.currentStreak =
      IF TodayEntry.workouts > 0
      THEN Min(TodayEntry.streak, ScanDays)
      ELSE Min(YesterdayStreak, ScanDays - 1)

\* the sum of the workout counts of the entries from..Len(dailyStats)
SeriesWorkouts(from) ==
  SumSeq([k \in 1..(Len(response.body.dailyStats) - from + 1) |->
            response.body.dailyStats[from + k - 1].workouts])

\* C24: the workout counts of the daily entries add up to totalWorkouts:
\* every log the window query returned is counted in exactly one entry.
C24_DailyCountsAddUpToTotal ==
  Answered => SeriesWorkouts(1) = response.body.totalWorkouts

\* C24 witness: a report whose logs are spread over several entries, one of
\* them with two logs
C24_Witness ==
  /\ Answered
  /\ response.body.totalWorkouts >= 3
  /\ \E k \in 1..Len(response.body.dailyStats) :
       response.body.dailyStats[k].workouts = 2
  /\ \E k \in 1..Len(response.body.dailyStats) :
       response.body.dailyStats[k].workouts = 0

\* C25 (as claimed): workoutsThisWeek is the sum of the workout counts of
\* the last min(7, windowDays) daily entries, whatever the time of day of
\* now and of the logs.
C25_Claim_ThisWeekIsLastSevenEntries ==
  Answered =>
    response.body.workoutsThisWeek =
      SeriesWorkouts(Len(response.body.dailyStats)
                       - Min(WeekDays, request.daysNumber) + 1)

----------------------------------------------------------------------------
(* The workout a log references (checked under SpecLogs)                   *)

\* no workout has this id
UnknownWorkout(w) == \A i \in 1..Len(workouts) : workouts[i].id # w

\* the workout exists and its plan is missing or another user's
ForeignWorkout(w) ==
  \E i \in 1..Len(workouts) :
    /\ workouts[i].id = w
    /\ \A j \in 1..Len(plans) :
         plans[j].id = workouts[i].planId => plans[j].userId # demoUserId

\* the workout the body of the request served by this step names, or NULL
NamedWorkout ==
  IF "workoutId" \in DOMAIN request'.body THEN request'.body.workoutId ELSE NULL

\* the log a PUT names is stored and belongs to the active user
OwnLog(id) ==
  \E i \in 1..Len(logs) : logs[i].id = id /\ logs[i].userId = demoUserId

\* this step serves a POST or PUT whose body passes validation; the PUT is
\* on a log of the active user
ServesValidLogRequest ==
  \/ /\ request'.kind = "postLog"
     /\ insertWorkoutLogSchema(MergedLog([userId |-> demoUserId], request'.body))
  \/ /\ request'.kind = "putLog"
     /\ OwnLog(request'.id)
     /\ updateWorkoutLogSchema(request'.body)

\* C28: no log of the active user is created or updated to reference a
\* workout that does not exist or whose plan is another user's: a valid POST
\* or PUT naming an unknown workout is answered 404, one naming another
\* user's workout 403, and a PUT on a log that is not the active user's 404,
\* each with the stored logs unchanged.
C28_LogsReferenceOwnWorkouts ==
  /\ [](\A i \in 1..Len(logs) :
         logs[i].userId = demoUserId /\ logs[i].workoutId # NULL =>
           ~UnknownWorkout(logs[i].workoutId) /\ ~ForeignWorkout(logs[i].workoutId))
  /\ [][ /\ ServesValidLogRequest /\ NamedWorkout # NULL /\ UnknownWorkout(NamedWorkout)
            => response'.status = 404 /\ logs' = logs
         /\ ServesValidLogRequest /\ NamedWorkout # NULL /\ ForeignWorkout(NamedWorkout)
            => response'.status = 403 /\ logs' = logs
         /\ request'.kind = "putLog" /\ ~OwnLog(request'.id)
            => response'.status = 404 /\ logs' = logs ]_vars

\* C28 witness: a PUT that would move an own log to another user's workout
\* has been answered 403, after a POST naming an unknown workout
C28_Witness ==
  /\ request.kind = "putLog"
  /\ request.body = [workoutId |-> 3, exercises |-> PlainExercises]
  /\ OwnLog(request.id)
  /\ response.status = 403
  /\ posts = 1
  /\ Len(logs) = 3

----------------------------------------------------------------------------
(* Deleted and updated workouts (checked under SpecWorkouts)               *)

\* C26 (as claimed): after DELETE /api/workouts/:id or
\* DELETE /api/workout-plans/:id has deleted its rows, every stored log
\* whose workoutId is null still has at least one exercise, also a log that
\* referenced the deleted workout and was created without exercises.
C26_Claim_DeletionKeepsLogRule ==
  request.kind \in {"deleteWorkout", "deletePlan"} /\ response.status = 204 =>
    \A i \in 1..Len(logs) : ~EmptyCustomLog(logs[i])

\* C30 (as claimed): PUT /api/workouts/:id leaves the id and the planId of
\* every workout as they were, whatever fields the body has.
C30_Claim_UpdateKeepsIdAndPlan ==
  [][ request'.kind = "putWorkout" =>
        /\ Len(workouts') = Len(workouts)
        /\ \A i \in 1..Len(workouts) :
             /\ workouts'[i].id = workouts[i].id
             /\ workouts'[i].planId = workouts[i].planId ]_vars

----------------------------------------------------------------------------
(* Overlapping updates of a log (checked under SpecPuts)                   *)

\* C27 (as claimed): whatever the interleaving of two
\* PUT /api/workout-logs/:id requests on the same log, each reading the log,
\* checking against it and then writing, the stored log never has a null
\* workoutId and zero exercises.
C27_Claim_OverlappingUpdatesKeepLogRule ==
  \A i \in 1..Len(logs) :
    logs[i].workoutId = NULL => ExerciseCountOf(logs[i]) > 0

----------------------------------------------------------------------------
(* Generated plans (checked under SpecGenerate)                            *)

\* the chat-completion service was called and did not answer with a 2xx
UpstreamFailed ==
  /\ request.kind = "generate"
  /\ request.called
  /\ \/ request.upstream.kind = "timeout"
     \/ /\ request.upstream.kind = "response"
        /\ ~(request.upstream.status \in 200..299)

\* C21 (as claimed): a failure of the chat-completion service reaches the
\* client as the status of the AIServiceError: upstream 401 or 403 as 401,
\* 429 as 429, 500 and above as 503, any other status that is not ok as
\* 502, a timeout as 504, whether the upstream error body is JSON or not;
\* the timeout timer is cleared on every path.
C21_Claim_UpstreamFailuresMapped ==
  UpstreamFailed =>
    /\ request.timeoutHandle = "cleared"
    /\ response.status =
         IF request.upstream.kind = "timeout" THEN 504
         ELSE IF request.upstream.status \in {401, 403} THEN 401
         ELSE IF request.upstream.status = 429 THEN 429
         ELSE IF request.upstream.status >= 500 THEN 503
         ELSE 502

-----------------------------------------------------------------------------
(* The seed command                                                        *)

\* what the demo user owns in a store: the equipment by its type, the plans,
\* the workouts of those plans and the logs
DemoAccount(db) ==
  LET planIds == {db.plans[i].id :
                    i \in {j \in 1..Len(db.plans) : db.plans[j].userId = DEMO_USER}}
      own == SelectSeq(db.equipment, LAMBDA e : e.userId = DEMO_USER)
  IN  [ equipment |-> [k \in 1..Len(own) |-> own[k].type],
        plans |-> SelectSeq(db.plans, LAMBDA p : p.userId = DEMO_USER),
        workouts |-> SelectSeq(db.workouts, LAMBDA w : w.planId \in planIds),
        logs |-> SelectSeq(db.logs, LAMBDA l : l.userId = DEMO_USER) ]

Store ==
  [ users |-> users, equipment |-> equipment, plans |-> plans,
    workouts |-> workouts, logs |-> logs ]

SeedRan == request.kind = "seed"

SeedSucceeded == SeedRan /\ request.exitCode = 0

=============================================================================
